---------------------------- MODULE Spec2Model ----------------------------
(***************************************************************************)
(* Model of the extraction-comparison tools of the manifesto pipeline:     *)
(*   src/text_comparison.py              (prefix tc_ where names clash)    *)
(*   src/7_archive/c1_text_comparison.py (prefix c1_ where names clash)    *)
(*                                                                         *)
(* A filename is a sequence of lexical tokens (the date stem, key letters, *)
(* the method suffixes, the _cleaned marker, the extension); the tokens    *)
(* are chosen so that a method suffix can only occur in the concatenated   *)
(* filename at a token boundary.  A text is a sequence of characters drawn *)
(* from one representative per character class the metrics distinguish.    *)
(* A Python dict is a sequence of <<key, value>> pairs in insertion order. *)
(* A Python float is modelled by the exact rational <<num, den>>.          *)
(***************************************************************************)
EXTENDS Integers, Sequences, FiniteSets, TLC

VARIABLES
    prog,       \* which script is running: "tc", "c1", "metrics", "names"
    pc,         \* position of the running script
    folder,     \* the input directory: filename -> text content
    todo,       \* filenames folder.glob("*.txt") has not yielded yet
    grouped,    \* dict group key -> dict method -> filename
    row_i,      \* number of groups already written by the report loop
    csv,        \* the summary CSV: whether it exists, and its rows
    text,       \* input of the metric functions
    metrics,    \* their results
    fname,      \* input of extract_group_key
    gkey,       \* its result
    cleaned,    \* the text a cleaning function is working on, then its result
    written,    \* the files the cleaning run has written: filename -> content
    df,         \* the DataFrame of the labelling run: its chunk_text and label columns
    executor,   \* the thread pool of the labelling run and its futures
    call_counter, \* results the labelling loop has recorded
    output_file,  \* what the labelling run last wrote to output_file
    doc_sentences, \* what sent_tokenize returned for the document being chunked
    chunks,     \* the rows split_cleaned_text_to_chunks returned
    selected,   \* per row of the summary, the file the recommendation script copied
    fs_case_sensitive  \* whether the file system tells names apart that differ in letter case only

vars == <<prog, pc, folder, todo, grouped, row_i, csv, text, metrics, fname, gkey, cleaned, written,
         df, executor, call_counter, output_file, doc_sentences, chunks, selected, fs_case_sensitive>>

(* None, and the empty string, which the scripts only ever test for truth *)
None == <<>>

(* an optional scalar (a list entry that may be None): <<>> or <<v>> *)
Some(v) == <<v>>

----------------------------------------------------------------------------
(* Bounds of the model *)

MaxFiles == 3
MaxTextLen == 3
MaxNameLen == 4

----------------------------------------------------------------------------
(* Python helpers *)

Min(S) == CHOOSE x \in S : \A y \in S : x <= y

RECURSIVE SumSeq(_)
SumSeq(s) == IF s = <<>> THEN 0 ELSE Head(s) + SumSeq(Tail(s))

Range(s) == { s[i] : i \in 1..Len(s) }

SeqsUpTo(S, n) == UNION { [1..k -> S] : k \in 0..n }

(* dict: insertion-ordered sequence of <<key, value>> *)
DictHas(d, k) == \E i \in 1..Len(d) : d[i][1] = k

DictGet(d, k) == IF DictHas(d, k)
                 THEN d[CHOOSE i \in 1..Len(d) : d[i][1] = k][2]
                 ELSE None

(* d[k] = v: an existing key keeps its position, a new key goes last *)
DictSet(d, k, v) == IF DictHas(d, k)
                    THEN [i \in 1..Len(d) |-> IF d[i][1] = k THEN <<k, v>> ELSE d[i]]
                    ELSE Append(d, <<k, v>>)

DictKeys(d) == [i \in 1..Len(d) |-> d[i][1]]

(* float arithmetic on exact rationals <<n, d>>, d > 0, kept in lowest terms *)
RECURSIVE GCD(_, _)
GCD(a, b) == IF b = 0 THEN a ELSE GCD(b, a % b)

AbsInt(n) == IF n < 0 THEN -n ELSE n

Norm(r) == LET g == GCD(AbsInt(r[1]), r[2]) IN <<r[1] \div g, r[2] \div g>>

R(n) == <<n, 1>>
RAdd(a, b) == Norm(<<a[1] * b[2] + b[1] * a[2], a[2] * b[2]>>)
RSub(a, b) == Norm(<<a[1] * b[2] - b[1] * a[2], a[2] * b[2]>>)
RMul(a, b) == Norm(<<a[1] * b[1], a[2] * b[2]>>)
RLe(a, b) == a[1] * b[2] <= b[1] * a[2]
RLt(a, b) == a[1] * b[2] < b[1] * a[2]
REq(a, b) == a[1] * b[2] = b[1] * a[2]
RAbs(a) == IF a[1] < 0 THEN <<-a[1], a[2]>> ELSE a

(* the outcome of a division that raises: no rational has denominator 0 *)
ZeroDivisionError == <<0, 0>>

(* n / d on two ints: raises on d = 0 *)
PyDiv(n, d) == IF d = 0 THEN ZeroDivisionError ELSE <<n, d>>

(* a / k on a float a and a positive int literal k *)
RDivInt(a, k) == Norm(<<a[1], a[2] * k>>)

PyMaxInt(a, b) == IF a >= b THEN a ELSE b

----------------------------------------------------------------------------
(* Filenames *)

DateTok == "2019-12-"
TxtTok == ".txt"
CleanedTok == "_cleaned"
KeyToks == {"k", "K"}
SuffixToks == {"_from_csv", "_pymupdf_extraction", "_tesseract_extraction"}
UpperSuffixToks == {"_FROM_CSV"}
NameToks == {DateTok, TxtTok, CleanedTok} \cup KeyToks \cup SuffixToks \cup UpperSuffixToks

(* str.lower() on one token *)
LowerTok(t) == CASE t = "K" -> "k"
                 [] t = "_FROM_CSV" -> "_from_csv"
                 [] OTHER -> t

Lower(s) == [i \in 1..Len(s) |-> LowerTok(s[i])]

(* the method a suffix token names: the suffix without its leading underscore *)
MethodOf(t) == CASE t = "_from_csv" -> "from_csv"
                 [] t = "_pymupdf_extraction" -> "pymupdf_extraction"
                 [] t = "_tesseract_extraction" -> "tesseract_extraction"

(* substring test  '<tok>' in f.name  for a token-aligned substring *)
Contains(name, tok) == \E i \in 1..Len(name) : name[i] = tok

(* text_comparison.py: the rest of the pattern after the method alternative,
   (?:_cleaned)?\.txt , tried at token i+1; re.match does not anchor the end *)
tc_tail_matches(name, i) ==
    \/ i + 1 <= Len(name) /\ name[i + 1] = TxtTok
    \/ i + 2 <= Len(name) /\ name[i + 1] = CleanedTok /\ name[i + 2] = TxtTok

(* a pattern slip: the tail (?:_cleaned)?\.txt is not required *)
tc_match_positions_no_tail(name) ==
    { i \in 2..Len(name) : name[i] \in SuffixToks }

(* positions where (.+?)_(tesseract_extraction|pymupdf_extraction|from_csv)
   can end its lazy first group: at least one character precedes the suffix *)
tc_match_positions(name) ==
    { i \in 2..Len(name) : name[i] \in SuffixToks /\ tc_tail_matches(name, i) }

(* the lazy group takes the leftmost position at which the whole pattern matches *)
tc_match_pos(name) == Min(tc_match_positions(name))

extract_group_key(name) ==
    IF tc_match_positions(name) # {}
    THEN SubSeq(name, 1, tc_match_pos(name) - 1)
    ELSE None

(* the elif chain of compare_folder that picks the slot of a recognised file;
   when no branch is taken nothing is stored *)
tc_slot(name) ==
    IF Contains(name, "_tesseract_extraction") THEN "tesseract_extraction"
    ELSE IF Contains(name, "_pymupdf_extraction") THEN "pymupdf_extraction"
    ELSE IF Contains(name, "_from_csv") THEN "from_csv"
    ELSE "unassigned"

(* c1_text_comparison.py: _PATTERN, anchored at both ends, re.IGNORECASE.
   The stem is \d{4}-\d{2}- followed by one or more of [a-z0-9_]; every token
   but the date stem and the extension is made of such characters. *)
c1_stem_char_toks == NameToks \ {DateTok, TxtTok}

_PATTERN_matches(name) ==
    /\ Len(name) >= 4
    /\ name[1] = DateTok
    /\ \A j \in 2..(Len(name) - 2) : name[j] \in c1_stem_char_toks
    /\ LowerTok(name[Len(name) - 1]) \in SuffixToks
    /\ name[Len(name)] = TxtTok

c1_prefix(name) == Lower(SubSeq(name, 1, Len(name) - 2))

c1_method(name) ==
    LET raw_method == MethodOf(LowerTok(name[Len(name) - 1]))
    IN  IF raw_method = "pymupdf_extraction" THEN "pymupdf"
        ELSE IF raw_method = "tesseract_extraction" THEN "tesseract"
        ELSE "from_csv"

----------------------------------------------------------------------------
(* Texts and metrics *)

Letters == {"a", "b"}
Digits == {"1"}
Whitespace == {" ", "\n"}
ReplacementChar == "U+FFFD"
Ellipsis == "U+2026"
NonAscii == {"U+00E9", ReplacementChar, Ellipsis}
AsciiPunctuation == {".", ",", "-"}
Chars == Letters \cup Digits \cup Whitespace \cup NonAscii \cup AsciiPunctuation

(* str.split(): the maximal runs of non-whitespace characters *)
RECURSIVE SplitFrom(_, _, _)
SplitFrom(s, cur, acc) ==
    IF s = <<>> THEN (IF cur = <<>> THEN acc ELSE Append(acc, cur))
    ELSE IF Head(s) \in Whitespace
         THEN SplitFrom(Tail(s), <<>>, IF cur = <<>> THEN acc ELSE Append(acc, cur))
         ELSE SplitFrom(Tail(s), Append(cur, Head(s)), acc)

split(s) == SplitFrom(s, <<>>, <<>>)

(* sum(1 for ch in s if ch in S) *)
CountIn(s, S) == Cardinality({ i \in 1..Len(s) : s[i] \in S })

(* sum(len(w) for w in words) *)
TotalLen(words) == SumSeq([i \in 1..Len(words) |-> Len(words[i])])

(* ---- c1_text_comparison.py ---- *)

_tokenise(t) == split(t)

(* re.search(r"[A-Za-z].*\d|\d.*[A-Za-z]", w) *)
c1_mixed(w) == \E i, j \in 1..Len(w) :
                  /\ i < j
                  /\ \/ w[i] \in Letters /\ w[j] \in Digits
                     \/ w[i] \in Digits /\ w[j] \in Letters

c1_suspicious(w) == \/ \E i \in 1..Len(w) : w[i] = ReplacementChar
                    \/ c1_mixed(w)
                    \/ \E i \in 1..Len(w) : w[i] \in NonAscii

_ocr_error_heuristic(words) ==
    PyDiv(Cardinality({ i \in 1..Len(words) : c1_suspicious(words[i]) }),
          PyMaxInt(Len(words), 1))

(* _SENTENCE_BOUNDARY = [.!?...]+\s|\n+ : the length of its match at i, or 0 *)
SentenceTerminals == {".", Ellipsis}

RECURSIVE RunLen(_, _, _)
RunLen(s, i, S) == IF i <= Len(s) /\ s[i] \in S THEN 1 + RunLen(s, i + 1, S) ELSE 0

_SENTENCE_BOUNDARY_at(s, i) ==
    LET r == RunLen(s, i, SentenceTerminals)
        n == RunLen(s, i, {"\n"})
    IN  IF r >= 1 /\ i + r <= Len(s) /\ s[i + r] \in Whitespace THEN r + 1
        ELSE n

(* _SENTENCE_BOUNDARY.split(text) *)
RECURSIVE BoundarySplit(_, _, _, _)
BoundarySplit(s, i, cur, acc) ==
    IF i > Len(s) THEN Append(acc, cur)
    ELSE LET m == _SENTENCE_BOUNDARY_at(s, i)
         IN  IF m > 0 THEN BoundarySplit(s, i + m, <<>>, Append(acc, cur))
             ELSE BoundarySplit(s, i + 1, Append(cur, s[i]), acc)

(* s.strip() is non-empty *)
NonBlank(s) == \E i \in 1..Len(s) : s[i] \notin Whitespace


_compute_metrics(t) ==
    LET words == _tokenise(t)
        word_count == Len(words)
        sentences == BoundarySplit(t, 1, <<>>, <<>>)
        char_count == Len(t)
        punctuation_count == CountIn(t, AsciiPunctuation)
    IN  [ word_count |-> word_count,
          sentence_count |-> Cardinality({ i \in 1..Len(sentences) : NonBlank(sentences[i]) }),
          char_count |-> char_count,
          avg_word_length |-> IF word_count # 0
                              THEN PyDiv(TotalLen(words), word_count)
                              ELSE R(0),
          punctuation_frequency |-> PyDiv(punctuation_count, PyMaxInt(char_count, 1)),
          lexical_diversity |-> PyDiv(Cardinality(Range(words)), PyMaxInt(word_count, 1)),
          ocr_error_rate |-> _ocr_error_heuristic(words) ]

(* a scoring slip: the error rate is left out of the product *)
_quality_score_word_count_only(m) == R(m.word_count)

_quality_score(m) == RMul(R(m.word_count), RSub(R(1), m.ocr_error_rate))

(* ---- text_comparison.py ---- *)

word_count(t) == Len(split(t))

(* re.findall(r'[.!?]', text) *)
tc_sentence_marks == {"."}

sentence_count(t) == CountIn(t, tc_sentence_marks)

character_count(t) == Len(t)

(* re.search(r'[^-]', word): the word has a character other than '-' *)
tc_suspicious(w) == \E i \in 1..Len(w) : w[i] # "-"

ocr_error_rate(t) ==
    LET words == split(t)
    IN  PyDiv(Cardinality({ i \in 1..Len(words) : tc_suspicious(words[i]) }),
              PyMaxInt(Len(words), 1))

(* a guard slip: the word count is not floored at 1 *)
average_word_length_unguarded(t) == PyDiv(TotalLen(split(t)), Len(split(t)))

average_word_length(t) == PyDiv(TotalLen(split(t)), PyMaxInt(Len(split(t)), 1))

(* c in '.,;:!?' *)
tc_punctuation == {".", ","}

(* a denominator slip: punctuation marks per word instead of per character *)
punctuation_frequency_per_word(t) ==
    PyDiv(CountIn(t, tc_punctuation), PyMaxInt(Len(split(t)), 1))

punctuation_frequency(t) == PyDiv(CountIn(t, tc_punctuation), PyMaxInt(Len(t), 1))

tc_metrics(t) ==
    [ word_count |-> word_count(t),
      sentence_count |-> sentence_count(t),
      char_count |-> character_count(t),
      ocr_error_rate |-> ocr_error_rate(t),
      avg_word_length |-> average_word_length(t),
      punctuation_freq |-> punctuation_frequency(t) ]

----------------------------------------------------------------------------
(* The input directory *)

(* <key>_<method>[_cleaned].txt for two methods, a key in another letter case,
   a suffix in another letter case, a key that embeds a method suffix, and a
   file that is no extraction at all *)
FileNames ==
    { <<DateTok, "k", "_from_csv", TxtTok>>,
      <<DateTok, "k", "_pymupdf_extraction", TxtTok>>,
      <<DateTok, "k", "_tesseract_extraction", TxtTok>>,
      <<DateTok, "k", "_tesseract_extraction", CleanedTok, TxtTok>>,
      <<DateTok, "K", "_from_csv", TxtTok>>,
      <<DateTok, "k", "_FROM_CSV", TxtTok>>,
      <<DateTok, "k", "_tesseract_extraction", "k", "_from_csv", TxtTok>>,
      <<"k", TxtTok>> }

(* two clean words, one clean and one mixed word, and the empty file *)
SampleTexts ==
    { <<"a", " ", "b">>,
      <<"a", "1", " ", "b">>,
      <<>> }

Folders == UNION { [S -> SampleTexts] :
                   S \in { T \in SUBSET FileNames : Cardinality(T) <= MaxFiles } }

(* A file's content is the sequence of its encoded characters: a character of
   Chars stands for its own UTF-8 encoding, InvalidByte for a byte that is not
   valid UTF-8 (0xFF).  Unreadable is the content of a name open() refuses
   (a directory called x.txt, a file without read permission). *)
InvalidByte == "0xFF"
Unreadable == <<"OSError">>

(* what open(file, 'r', encoding='utf-8').read() raises, "none" if it returns *)
read_error(content) ==
    IF content = Unreadable THEN "OSError"
    ELSE IF \E i \in 1..Len(content) : content[i] = InvalidByte THEN "UnicodeDecodeError"
    ELSE "none"

(* the text read() returns for valid UTF-8: one character per encoded character *)
utf8_decode(content) == [i \in 1..Len(content) |-> content[i]]

(* path.read_text(encoding="utf8", errors="replace") *)
decode_replace(content) ==
    [i \in 1..Len(content) |->
        IF content[i] = InvalidByte THEN ReplacementChar ELSE content[i]]

EmptyCsv == [exists |-> FALSE, rows |-> <<>>]

(* open(..., "w") followed by writer.writeheader() *)
OpenedCsv == [exists |-> TRUE, rows |-> <<>>]

(* lexicographic order of str on token sequences: the tokens are prefix-free,
   so comparing them by their own string order compares the filenames *)
TokRank(t) == CASE t = ".txt" -> 1
                [] t = "2019-12-" -> 2
                [] t = "K" -> 3
                [] t = "_FROM_CSV" -> 4
                [] t = "_cleaned" -> 5
                [] t = "_from_csv" -> 6
                [] t = "_pymupdf_extraction" -> 7
                [] t = "_tesseract_extraction" -> 8
                [] t = "k" -> 9

RECURSIVE StrLt(_, _)
StrLt(a, b) ==
    IF b = <<>> THEN FALSE
    ELSE IF a = <<>> THEN TRUE
    ELSE IF Head(a) = Head(b) THEN StrLt(Tail(a), Tail(b))
    ELSE TokRank(Head(a)) < TokRank(Head(b))

(* sorted(d.items()): the keys are distinct, so the pairs sort by key *)
SortedItems(d) ==
    [ k \in 1..Len(d) |->
        d[CHOOSE i \in 1..Len(d) :
            Cardinality({ j \in 1..Len(d) : StrLt(d[j][1], d[i][1]) }) = k - 1] ]

(* max(iterable, key=...): the first item whose key no other item exceeds *)
PyMaxIndex(scores) ==
    CHOOSE i \in 1..Len(scores) :
        /\ \A j \in 1..Len(scores) : RLe(scores[j], scores[i])
        /\ \A j \in 1..(i - 1) : RLt(scores[j], scores[i])

----------------------------------------------------------------------------
(* text_comparison.py: recommendation and report *)

tc_method_order == <<"from_csv", "pymupdf_extraction", "tesseract_extraction">>

method_labels(m) == CASE m = "from_csv" -> "from_csv"
                      [] m = "pymupdf_extraction" -> "PyMuPDF"
                      [] m = "tesseract_extraction" -> "Tesseract"
                      [] OTHER -> m

(* f"{value:.4f}": the value in ten-thousandths, rounded to the nearest *)
Format4f(r) == (2 * 10000 * r[1] + r[2]) \div (2 * r[2])

(* the values are ints (is_float FALSE) or floats; None prints as N/A *)
format_metric_list(values, method_order, is_float) ==
    [ i \in 1..Len(method_order) |->
        IF values[i] # None
        THEN IF is_float
             THEN <<method_labels(method_order[i]), "float", Format4f(values[i][1])>>
             ELSE <<method_labels(method_order[i]), "int", values[i][1]>>
        ELSE <<method_labels(method_order[i]), "N/A", 0>> ]

(* one pass of the scoring loop of calculate_recommendation, for method i:
   <<score, valid_metrics>> *)
tc_score_terms(metrics_dict, i) ==
    LET wc == metrics_dict.word_counts[i]
        cc == metrics_dict.char_counts[i]
        er == metrics_dict.ocr_error_rates[i]
        al == metrics_dict.avg_word_lengths[i]
        pf == metrics_dict.punctuation_freqs[i]
        s0 == R(0)
        s1 == IF wc # None THEN RAdd(s0, R(wc[1])) ELSE s0
        s2 == IF cc # None THEN RAdd(s1, RDivInt(R(cc[1]), 100)) ELSE s1
        s3 == IF er # None THEN RSub(s2, RMul(er[1], R(1000))) ELSE s2
        s4 == IF al # None
              THEN IF RLe(R(4), al[1]) /\ RLe(al[1], R(6))
                   THEN RAdd(s3, R(50))
                   ELSE RSub(s3, RMul(RAbs(RSub(al[1], R(5))), R(10)))
              ELSE s3
        s5 == IF pf # None
              THEN IF RLe(<<5, 100>>, pf[1]) /\ RLe(pf[1], <<15, 100>>)
                   THEN RAdd(s4, R(30))
                   ELSE RSub(s4, RMul(RAbs(RSub(pf[1], <<1, 10>>)), R(100)))
              ELSE s4
        v(x) == IF x # None THEN 1 ELSE 0
        valid == v(wc) + v(cc) + v(er) + v(al) + v(pf)
    IN  <<s5, valid>>

(* a guard slip: every method of method_order gets a score, absent ones too *)
RECURSIVE tc_scores_unguarded(_, _, _)
tc_scores_unguarded(metrics_dict, method_order, i) ==
    IF i > Len(method_order) THEN <<>>
    ELSE LET t == tc_score_terms(metrics_dict, i)
         IN  << <<method_order[i], RDivInt(t[1], PyMaxInt(t[2], 1))>> >>
             \o tc_scores_unguarded(metrics_dict, method_order, i + 1)

(* the scores dict: method -> score / valid_metrics, in method_order *)
RECURSIVE tc_scores(_, _, _)
tc_scores(metrics_dict, method_order, i) ==
    IF i > Len(method_order) THEN <<>>
    ELSE LET t == tc_score_terms(metrics_dict, i)
             valid_metrics == t[2]
         IN  (IF valid_metrics > 0
              THEN << <<method_order[i], RDivInt(t[1], valid_metrics)>> >>
              ELSE <<>>)
             \o tc_scores(metrics_dict, method_order, i + 1)

(* the body of calculate_recommendation after its scoring loop *)
tc_best_label(scores) ==
    IF scores = <<>> THEN "No data available"
    ELSE LET best_method ==
                 scores[PyMaxIndex([i \in 1..Len(scores) |-> scores[i][2]])][1]
         IN  method_labels(best_method)

(* the scores dict is built once and then read *)
calculate_recommendation(metrics_dict, method_order) ==
    CHOOSE label \in { tc_best_label(scores) :
                          scores \in {tc_scores(metrics_dict, method_order, 1)} } : TRUE

(* the per-method lists the report loop fills for one group: a file that is
   present is read once and each metric function is applied to its text *)
tc_metric_lists(methods, method_order, dir) ==
    LET n == Len(method_order)
        has(i) == DictHas(methods, method_order[i])
        txt(i) == utf8_decode(dir[DictGet(methods, method_order[i])])
    IN  [ word_counts |-> [i \in 1..n |-> IF has(i) THEN Some(word_count(txt(i))) ELSE None],
          sentence_counts |-> [i \in 1..n |-> IF has(i) THEN Some(sentence_count(txt(i))) ELSE None],
          char_counts |-> [i \in 1..n |-> IF has(i) THEN Some(character_count(txt(i))) ELSE None],
          ocr_error_rates |-> [i \in 1..n |-> IF has(i) THEN Some(ocr_error_rate(txt(i))) ELSE None],
          avg_word_lengths |-> [i \in 1..n |-> IF has(i) THEN Some(average_word_length(txt(i))) ELSE None],
          punctuation_freqs |-> [i \in 1..n |-> IF has(i) THEN Some(punctuation_frequency(txt(i))) ELSE None] ]

(* an iteration slip: the methods are taken in the order the group's dict
   holds them instead of the fixed method_order *)
tc_row_dict_order(group, methods, dir) ==
    LET method_order == DictKeys(methods)
        l == tc_metric_lists(methods, method_order, dir)
    IN  [ group |-> group,
          word_counts |-> format_metric_list(l.word_counts, method_order, FALSE),
          sentence_counts |-> format_metric_list(l.sentence_counts, method_order, FALSE),
          char_counts |-> format_metric_list(l.char_counts, method_order, FALSE),
          ocr_error_rates |-> format_metric_list(l.ocr_error_rates, method_order, TRUE),
          avg_word_lengths |-> format_metric_list(l.avg_word_lengths, method_order, TRUE),
          punctuation_freqs |-> format_metric_list(l.punctuation_freqs, method_order, TRUE),
          recommendation |-> calculate_recommendation(l, method_order) ]

(* the columns of a row, from the per-method lists l *)
tc_row_of(group, l, method_order) ==
    [ group |-> group,
      word_counts |-> format_metric_list(l.word_counts, method_order, FALSE),
      sentence_counts |-> format_metric_list(l.sentence_counts, method_order, FALSE),
      char_counts |-> format_metric_list(l.char_counts, method_order, FALSE),
      ocr_error_rates |-> format_metric_list(l.ocr_error_rates, method_order, TRUE),
      avg_word_lengths |-> format_metric_list(l.avg_word_lengths, method_order, TRUE),
      punctuation_freqs |-> format_metric_list(l.punctuation_freqs, method_order, TRUE),
      recommendation |-> calculate_recommendation(l, method_order) ]

(* the row written for one group: the lists are filled once, then formatted *)
tc_row(group, methods, dir) ==
    CHOOSE row \in { tc_row_of(group, l, tc_method_order) :
                        l \in {tc_metric_lists(methods, tc_method_order, dir)} } : TRUE

(* an assignment slip: an occupied slot keeps its file
   (grouped[group_key].setdefault(slot, f)) *)
tc_store_keep_first(g, name) ==
    LET group_key == extract_group_key(name)
        methods == IF DictHas(g, group_key) THEN DictGet(g, group_key) ELSE <<>>
    IN  IF tc_slot(name) = "unassigned" \/ DictHas(methods, tc_slot(name))
        THEN DictSet(g, group_key, methods)
        ELSE DictSet(g, group_key, DictSet(methods, tc_slot(name), name))

(* grouped.setdefault(group_key, {}); grouped[group_key][slot] = f *)
tc_store(g, name) ==
    LET group_key == extract_group_key(name)
        methods == IF DictHas(g, group_key) THEN DictGet(g, group_key) ELSE <<>>
    IN  IF tc_slot(name) = "unassigned"
        THEN DictSet(g, group_key, methods)
        ELSE DictSet(g, group_key, DictSet(methods, tc_slot(name), name))

(* one iteration of  for f in files  *)
tc_group_file(f) ==
    /\ prog = "tc" /\ pc = "glob"
    /\ f \in todo
    /\ todo' = todo \ {f}
    /\ grouped' = IF extract_group_key(f) # None THEN tc_store(grouped, f) ELSE grouped
    /\ UNCHANGED <<prog, pc, folder, row_i, csv, text, metrics, fname, gkey, cleaned, written, df, executor, call_counter, output_file, doc_sentences, chunks, selected, fs_case_sensitive>>

(* an ordering slip: the summary is opened before the emptiness test *)
tc_no_match_after_open ==
    /\ prog = "tc" /\ pc = "glob" /\ todo = {}
    /\ grouped = <<>>
    /\ csv' = OpenedCsv
    /\ pc' = "FileNotFoundError"
    /\ UNCHANGED <<prog, folder, todo, grouped, row_i, text, metrics, fname, gkey, cleaned, written, df, executor, call_counter, output_file, doc_sentences, chunks, selected, fs_case_sensitive>>

(* if not grouped: raise FileNotFoundError *)
tc_no_match ==
    /\ prog = "tc" /\ pc = "glob" /\ todo = {}
    /\ grouped = <<>>
    /\ pc' = "FileNotFoundError"
    /\ UNCHANGED <<prog, folder, todo, grouped, row_i, csv, text, metrics, fname, gkey, cleaned, written, df, executor, call_counter, output_file, doc_sentences, chunks, selected, fs_case_sensitive>>

(* open(output_file, "w"); writer.writeheader() *)
tc_open_csv ==
    /\ prog = "tc" /\ pc = "glob" /\ todo = {}
    /\ grouped # <<>>
    /\ csv' = OpenedCsv
    /\ pc' = "report"
    /\ UNCHANGED <<prog, folder, todo, grouped, row_i, text, metrics, fname, gkey, cleaned, written, df, executor, call_counter, output_file, doc_sentences, chunks, selected, fs_case_sensitive>>

(* the first read of  for method in method_order  that raises, "none" if all
   the files of the group can be read *)
RECURSIVE tc_first_read_error(_, _, _, _)
tc_first_read_error(methods, method_order, dir, i) ==
    IF i > Len(method_order) THEN "none"
    ELSE IF DictHas(methods, method_order[i])
            /\ read_error(dir[DictGet(methods, method_order[i])]) # "none"
         THEN read_error(dir[DictGet(methods, method_order[i])])
         ELSE tc_first_read_error(methods, method_order, dir, i + 1)

(* one iteration of  for group, methods in grouped.items(): nothing catches
   what open() and read() raise, so a failed read ends the run *)
tc_write_row ==
    /\ prog = "tc" /\ pc = "report"
    /\ row_i < Len(grouped)
    /\ \E err \in {tc_first_read_error(grouped[row_i + 1][2], tc_method_order, folder, 1)} :
          IF err # "none"
          THEN /\ pc' = err
               /\ UNCHANGED <<csv, row_i>>
          ELSE /\ csv' = [csv EXCEPT !.rows =
                            Append(@, tc_row(grouped[row_i + 1][1], grouped[row_i + 1][2], folder))]
               /\ row_i' = row_i + 1
               /\ pc' = pc
    /\ UNCHANGED <<prog, folder, todo, grouped, text, metrics, fname, gkey, cleaned, written, df, executor, call_counter, output_file, doc_sentences, chunks, selected, fs_case_sensitive>>

(* return str(output_file) *)
tc_return ==
    /\ prog = "tc" /\ pc = "report"
    /\ row_i = Len(grouped)
    /\ pc' = "done"
    /\ UNCHANGED <<prog, folder, todo, grouped, row_i, csv, text, metrics, fname, gkey, cleaned, written, df, executor, call_counter, output_file, doc_sentences, chunks, selected, fs_case_sensitive>>

----------------------------------------------------------------------------
(* c1_text_comparison.py: gathering and report *)

_METHOD_ORDER == <<"from_csv", "pymupdf", "tesseract">>

(* groups[prefix][method] = file, groups being a defaultdict(dict) *)
c1_store(g, name) ==
    LET prefix == c1_prefix(name)
        methods == IF DictHas(g, prefix) THEN DictGet(g, prefix) ELSE <<>>
    IN  DictSet(g, prefix, DictSet(methods, c1_method(name), name))

(* metrics_by_method: method -> metrics, in the order of files_by_method *)
c1_metrics_by_method(files_by_method, dir) ==
    [ i \in 1..Len(files_by_method) |->
        <<files_by_method[i][1],
          _compute_metrics(decode_replace(dir[files_by_method[i][2]]))>> ]

(* round(x, 4) of a float, in ten-thousandths; of an int, the int *)
Round4(r) == (2 * 10000 * r[1] + r[2]) \div (2 * r[2])

(* round(metrics_by_method[m][metric_name], 4) *)
c1_rounded(m, metric_name) ==
    CASE metric_name = "word_count" -> m.word_count
      [] metric_name = "sentence_count" -> m.sentence_count
      [] metric_name = "char_count" -> m.char_count
      [] metric_name = "avg_word_length" -> Round4(m.avg_word_length)
      [] metric_name = "punctuation_frequency" -> Round4(m.punctuation_frequency)
      [] metric_name = "lexical_diversity" -> Round4(m.lexical_diversity)
      [] metric_name = "ocr_error_rate" -> Round4(m.ocr_error_rate)

(* [round(...) for m in _METHOD_ORDER if m in metrics_by_method] *)
RECURSIVE c1_metric_column(_, _, _)
c1_metric_column(mbm, metric_name, i) ==
    IF i > Len(_METHOD_ORDER) THEN <<>>
    ELSE (IF DictHas(mbm, _METHOD_ORDER[i])
          THEN <<c1_rounded(DictGet(mbm, _METHOD_ORDER[i]), metric_name)>>
          ELSE <<>>)
         \o c1_metric_column(mbm, metric_name, i + 1)

(* max(((m, _quality_score(metrics)) for m, metrics in metrics_by_method.items()),
       key=lambda t: t[1]) *)
c1_best_method(mbm) ==
    mbm[PyMaxIndex([i \in 1..Len(mbm) |-> _quality_score(mbm[i][2])])][1]

c1_row(source_id, files_by_method, dir) ==
    LET mbm == c1_metrics_by_method(files_by_method, dir)
        best_method == c1_best_method(mbm)
    IN  [ source_id |-> source_id,
          word_count |-> c1_metric_column(mbm, "word_count", 1),
          sentence_count |-> c1_metric_column(mbm, "sentence_count", 1),
          char_count |-> c1_metric_column(mbm, "char_count", 1),
          avg_word_length |-> c1_metric_column(mbm, "avg_word_length", 1),
          punctuation_frequency |-> c1_metric_column(mbm, "punctuation_frequency", 1),
          lexical_diversity |-> c1_metric_column(mbm, "lexical_diversity", 1),
          ocr_error_rate |-> c1_metric_column(mbm, "ocr_error_rate", 1),
          recommended_file |-> DictGet(files_by_method, best_method) ]

(* one iteration of  for file in folder.glob("*.txt")  in _gather_files *)
_gather_files_step(f) ==
    /\ prog = "c1" /\ pc = "glob"
    /\ f \in todo
    /\ todo' = todo \ {f}
    /\ grouped' = IF _PATTERN_matches(f) THEN c1_store(grouped, f) ELSE grouped
    /\ UNCHANGED <<prog, pc, folder, row_i, csv, text, metrics, fname, gkey, cleaned, written, df, executor, call_counter, output_file, doc_sentences, chunks, selected, fs_case_sensitive>>

(* if not groups: raise FileNotFoundError *)
c1_no_match ==
    /\ prog = "c1" /\ pc = "glob" /\ todo = {}
    /\ grouped = <<>>
    /\ pc' = "FileNotFoundError"
    /\ UNCHANGED <<prog, folder, todo, grouped, row_i, csv, text, metrics, fname, gkey, cleaned, written, df, executor, call_counter, output_file, doc_sentences, chunks, selected, fs_case_sensitive>>

(* csv_path.open("w"); writer.writeheader() *)
c1_open_csv ==
    /\ prog = "c1" /\ pc = "glob" /\ todo = {}
    /\ grouped # <<>>
    /\ csv' = OpenedCsv
    /\ pc' = "report"
    /\ UNCHANGED <<prog, folder, todo, grouped, row_i, text, metrics, fname, gkey, cleaned, written, df, executor, call_counter, output_file, doc_sentences, chunks, selected, fs_case_sensitive>>

(* one iteration of  for source_id, files_by_method in sorted(groups.items()):
   errors="replace" absorbs undecodable bytes, a refused open() ends the run *)
c1_write_row ==
    /\ prog = "c1" /\ pc = "report"
    /\ row_i < Len(grouped)
    /\ LET item == SortedItems(grouped)[row_i + 1]
       IN  IF \E i \in 1..Len(item[2]) : folder[item[2][i][2]] = Unreadable
           THEN /\ pc' = "OSError"
                /\ UNCHANGED <<csv, row_i>>
           ELSE /\ csv' = [csv EXCEPT !.rows = Append(@, c1_row(item[1], item[2], folder))]
                /\ row_i' = row_i + 1
                /\ pc' = pc
    /\ UNCHANGED <<prog, folder, todo, grouped, text, metrics, fname, gkey, cleaned, written, df, executor, call_counter, output_file, doc_sentences, chunks, selected, fs_case_sensitive>>

(* return csv_path *)
c1_return ==
    /\ prog = "c1" /\ pc = "report"
    /\ row_i = Len(grouped)
    /\ pc' = "done"
    /\ UNCHANGED <<prog, folder, todo, grouped, row_i, csv, text, metrics, fname, gkey, cleaned, written, df, executor, call_counter, output_file, doc_sentences, chunks, selected, fs_case_sensitive>>

----------------------------------------------------------------------------
(* Running either script on a directory *)

Init ==
    /\ prog \in {"tc", "c1"}
    /\ pc = "glob"
    /\ folder \in Folders
    /\ todo = DOMAIN folder
    /\ grouped = <<>>
    /\ row_i = 0
    /\ csv = EmptyCsv
    /\ text = <<>>
    /\ metrics = <<>>
    /\ fname = <<>>
    /\ gkey = <<>>
    /\ cleaned = <<>>
    /\ written = <<>>
    /\ df = <<>> /\ executor = <<>> /\ call_counter = 0 /\ output_file = <<>>
    /\ doc_sentences = <<>> /\ chunks = <<>> /\ selected = <<>> /\ fs_case_sensitive = TRUE

Next ==
    \/ \E f \in FileNames : tc_group_file(f)
    \/ tc_no_match
    \/ tc_open_csv
    \/ tc_write_row
    \/ tc_return
    \/ \E f \in FileNames : _gather_files_step(f)
    \/ c1_no_match
    \/ c1_open_csv
    \/ c1_write_row
    \/ c1_return

Spec == Init /\ [][Next]_vars

----------------------------------------------------------------------------
(* The metric functions on one text *)

Raises(m) == \E k \in DOMAIN m : m[k] = ZeroDivisionError

(* metrics = _compute_metrics(text); the ints are boxed as n/1 so that every
   field can be tested for a raised division *)
c1_compute_metrics_call ==
    /\ prog = "metrics" /\ pc = "start"
    /\ LET m == _compute_metrics(text)
           boxed == [m EXCEPT !.word_count = R(@), !.sentence_count = R(@),
                              !.char_count = R(@)]
       IN  IF Raises(boxed)
           THEN /\ pc' = "ZeroDivisionError"
                /\ metrics' = <<>>
           ELSE /\ pc' = "c1_metrics"
                /\ metrics' = boxed
    /\ UNCHANGED <<prog, folder, todo, grouped, row_i, csv, text, fname, gkey, cleaned, written, df, executor, call_counter, output_file, doc_sentences, chunks, selected, fs_case_sensitive>>

(* the six metric functions of text_comparison.py, as the report loop calls them *)
tc_metrics_call ==
    /\ prog = "metrics" /\ pc = "start"
    /\ LET m == tc_metrics(text)
           boxed == [m EXCEPT !.word_count = R(@), !.sentence_count = R(@),
                              !.char_count = R(@)]
       IN  IF Raises(boxed)
           THEN /\ pc' = "ZeroDivisionError"
                /\ metrics' = <<>>
           ELSE /\ pc' = "tc_metrics"
                /\ metrics' = boxed
    /\ UNCHANGED <<prog, folder, todo, grouped, row_i, csv, text, fname, gkey, cleaned, written, df, executor, call_counter, output_file, doc_sentences, chunks, selected, fs_case_sensitive>>

Texts == SeqsUpTo(Chars, MaxTextLen)

InitMetrics ==
    /\ prog = "metrics"
    /\ pc = "start"
    /\ text \in Texts
    /\ folder = <<>>
    /\ todo = {}
    /\ grouped = <<>>
    /\ row_i = 0
    /\ csv = EmptyCsv
    /\ metrics = <<>>
    /\ fname = <<>>
    /\ gkey = <<>>
    /\ cleaned = <<>>
    /\ written = <<>>
    /\ df = <<>> /\ executor = <<>> /\ call_counter = 0 /\ output_file = <<>>
    /\ doc_sentences = <<>> /\ chunks = <<>> /\ selected = <<>> /\ fs_case_sensitive = TRUE

NextMetrics ==
    \/ c1_compute_metrics_call
    \/ tc_metrics_call

SpecMetrics == InitMetrics /\ [][NextMetrics]_vars

----------------------------------------------------------------------------
(* Running either script on a directory some of whose files cannot be read.
   The folders of Spec hold readable, valid UTF-8 files only. *)

ReadNames ==
    { <<DateTok, "k", "_from_csv", TxtTok>>,
      <<DateTok, "k", "_pymupdf_extraction", TxtTok>>,
      <<DateTok, "K", "_from_csv", TxtTok>> }

(* a readable file, a file with a byte that is not UTF-8, a refused file *)
ReadContents ==
    { <<"a", " ", "b">>,
      <<"a", InvalidByte>>,
      Unreadable }

ReadFolders == UNION { [S -> ReadContents] :
                       S \in { T \in SUBSET ReadNames : Cardinality(T) <= MaxFiles } }

InitRead ==
    /\ prog \in {"tc", "c1"}
    /\ pc = "glob"
    /\ folder \in ReadFolders
    /\ todo = DOMAIN folder
    /\ grouped = <<>>
    /\ row_i = 0
    /\ csv = EmptyCsv
    /\ text = <<>>
    /\ metrics = <<>>
    /\ fname = <<>>
    /\ gkey = <<>>
    /\ cleaned = <<>>
    /\ written = <<>>
    /\ df = <<>> /\ executor = <<>> /\ call_counter = 0 /\ output_file = <<>>
    /\ doc_sentences = <<>> /\ chunks = <<>> /\ selected = <<>> /\ fs_case_sensitive = TRUE

SpecRead == InitRead /\ [][Next]_vars

----------------------------------------------------------------------------
(* extract_group_key on one filename *)

extract_group_key_call ==
    /\ prog = "names" /\ pc = "start"
    /\ gkey' = extract_group_key(fname)
    /\ pc' = IF extract_group_key(fname) # None THEN "matched" ELSE "unmatched"
    /\ UNCHANGED <<prog, folder, todo, grouped, row_i, csv, text, metrics, fname, cleaned, written, df, executor, call_counter, output_file, doc_sentences, chunks, selected, fs_case_sensitive>>

Names == SeqsUpTo(NameToks, MaxNameLen)

InitNames ==
    /\ prog = "names"
    /\ pc = "start"
    /\ fname \in Names
    /\ folder = <<>>
    /\ todo = {}
    /\ grouped = <<>>
    /\ row_i = 0
    /\ csv = EmptyCsv
    /\ text = <<>>
    /\ metrics = <<>>
    /\ gkey = <<>>
    /\ cleaned = <<>>
    /\ written = <<>>
    /\ df = <<>> /\ executor = <<>> /\ call_counter = 0 /\ output_file = <<>>
    /\ doc_sentences = <<>> /\ chunks = <<>> /\ selected = <<>> /\ fs_case_sensitive = TRUE

NextNames == extract_group_key_call

SpecNames == InitNames /\ [][NextNames]_vars

----------------------------------------------------------------------------
(* Properties of the archive script's arbitration *)

(* the files of the group a written c1 row belongs to, as <<method, file>> *)
c1_row_files(row) == DictGet(grouped, row.source_id)

(* quality = word_count x (1 - ocr_error_rate), as the documentation states it *)
stated_quality(name) ==
    LET m == _compute_metrics(folder[name])
    IN  RSub(R(m.word_count), RMul(R(m.word_count), m.ocr_error_rate))

(* the stated quality of each candidate of a group, in the group's order *)
stated_qualities(files) == [i \in 1..Len(files) |-> stated_quality(files[i][2])]

distinct_scores(q) == \A i, j \in DOMAIN q : i # j => ~REq(q[i], q[j])

maximal(q, i) == \A j \in DOMAIN q : RLe(q[j], q[i])

example_metrics(wc, err) == [word_count |-> wc, ocr_error_rate |-> err]

example_group ==
    << <<"tesseract", example_metrics(300, <<25, 100>>)>>,
       <<"pymupdf", example_metrics(480, <<2, 100>>)>>,
       <<"from_csv", example_metrics(500, R(0))>> >>

(* the worked example: 500 x 1, 480 x 0.98 and 300 x 0.75 *)
example_scores ==
    /\ REq(_quality_score(example_group[3][2]), R(500))
    /\ REq(_quality_score(example_group[2][2]), <<4704, 10>>)
    /\ REq(_quality_score(example_group[1][2]), R(225))
    /\ c1_best_method(example_group) = "from_csv"

(* C1: in c1_text_comparison.compare_folder, every written row of a group whose
   candidates have pairwise distinct quality scores recommends the candidate
   with the greatest quality = word_count x (1 - ocr_error_rate); word counts
   500/480/300 with error rates 0/0.02/0.25 score 500, 470.4 and 225 and
   from_csv is chosen. *)
C1_RecommendsMaxQuality ==
    /\ prog = "c1" =>
         \A r \in 1..Len(csv.rows) :
            LET files == c1_row_files(csv.rows[r])
            IN  \E q \in {stated_qualities(files)} :
                   distinct_scores(q) =>
                      \E i \in 1..Len(files) :
                         /\ csv.rows[r].recommended_file = files[i][2]
                         /\ maximal(q, i)
    /\ example_scores

(* a finished c1 run with a three-candidate group of pairwise distinct scores
   whose best candidate was neither enumerated first nor from_csv *)
C1_Witness ==
    /\ prog = "c1" /\ pc = "done"
    /\ \E r \in 1..Len(csv.rows) :
          LET files == c1_row_files(csv.rows[r])
          IN  /\ Len(files) = 3
              /\ distinct_scores(stated_qualities(files))
              /\ csv.rows[r].recommended_file # files[1][2]
              /\ csv.rows[r].recommended_file # DictGet(files, "from_csv")

c1_priority(m) == CHOOSE i \in 1..Len(_METHOD_ORDER) : _METHOD_ORDER[i] = m

(* C2: in c1_text_comparison.compare_folder, when several candidates of a group
   share the maximal quality score, the recommended file is the one whose
   method is earliest in from_csv, pymupdf, tesseract, whatever the order in
   which the folder's files were enumerated. *)
C2_TieGoesToPriority ==
    prog = "c1" =>
      \A r \in 1..Len(csv.rows) :
         LET files == c1_row_files(csv.rows[r])
         IN  \E q \in {stated_qualities(files)} :
                \E i \in 1..Len(files) :
                   /\ csv.rows[r].recommended_file = files[i][2]
                   /\ maximal(q, i)
                   /\ \A j \in 1..Len(files) :
                         maximal(q, j) => c1_priority(files[i][1]) <= c1_priority(files[j][1])

----------------------------------------------------------------------------
(* Properties of text_comparison's arbitration *)

(* what each file of the directory claims: <<group key, slot>>, the key being
   None for a file compare_folder skips *)
tc_claims(dir) == [f \in DOMAIN dir |-> <<extract_group_key(f), tc_slot(f)>>]

tc_recognised(claims) == { f \in DOMAIN claims : claims[f][1] # None }

(* no two files of the directory claim the same (group, method) slot *)
slot_free(claims) ==
    \A f1, f2 \in tc_recognised(claims) : f1 # f2 => claims[f1] # claims[f2]

claimants(claims, g, m) == { f \in DOMAIN claims : claims[f] = <<g, m>> }

(* the candidates of group g read off the directory, not off an enumeration *)
RECURSIVE present_methods(_, _, _)
present_methods(claims, g, i) ==
    IF i > Len(tc_method_order) THEN <<>>
    ELSE (IF claimants(claims, g, tc_method_order[i]) # {}
          THEN << <<tc_method_order[i],
                    CHOOSE f \in claimants(claims, g, tc_method_order[i]) : TRUE>> >>
          ELSE <<>>)
         \o present_methods(claims, g, i + 1)

order_free_recommendation(dir, claims, g) ==
    CHOOSE label \in
        { calculate_recommendation(l, tc_method_order) :
            l \in {tc_metric_lists(present_methods(claims, g, 1), tc_method_order, dir)} } : TRUE

(* C3: in text_comparison.compare_folder, when no two files claim the same
   (group, method) slot, the recommendation written for a group is the same
   for every enumeration order of the folder: it is the one determined by the
   metrics of the methods present, and a finished run has written exactly one
   row per group. *)
C3_RecommendationOrderFree ==
    (prog = "tc" /\ (Len(csv.rows) > 0 \/ pc = "done")) =>
      \E claims \in {tc_claims(folder)} :
        slot_free(claims) =>
          /\ \A r \in 1..Len(csv.rows) :
                csv.rows[r].recommendation =
                    order_free_recommendation(folder, claims, csv.rows[r].group)
          /\ \A r1, r2 \in 1..Len(csv.rows) :
                csv.rows[r1].group = csv.rows[r2].group => r1 = r2
          /\ pc = "done" =>
                { csv.rows[r].group : r \in 1..Len(csv.rows) }
                    = { claims[f][1] : f \in tc_recognised(claims) }

(* a finished run over a slot-free directory in which tesseract was enumerated
   before from_csv, their scores tie, and from_csv is recommended *)
C3_Witness ==
    /\ prog = "tc" /\ pc = "done" /\ slot_free(tc_claims(folder))
    /\ \E r \in 1..Len(csv.rows) :
          LET methods == DictGet(grouped, csv.rows[r].group)
          IN  /\ Len(methods) >= 2
              /\ methods[1][1] = "tesseract_extraction"
              /\ DictHas(methods, "from_csv")
              /\ folder[methods[1][2]] = folder[DictGet(methods, "from_csv")]
              /\ csv.rows[r].recommendation = "from_csv"

(* C4: the recommendation of every written row names a method that has a
   candidate file in the row's group, for groups of one, two or three methods;
   a one-method group gets that method, and calculate_recommendation never
   answers "No data available". *)
C4_RecommendedIsAvailable ==
    /\ \A g \in 1..Len(grouped) : Len(grouped[g][2]) \in 1..3
    /\ prog = "tc" =>
         \A r \in 1..Len(csv.rows) :
            LET methods == DictGet(grouped, csv.rows[r].group)
            IN  /\ csv.rows[r].recommendation # "No data available"
                /\ \E i \in 1..Len(methods) :
                      csv.rows[r].recommendation = method_labels(methods[i][1])
    /\ prog = "c1" =>
         \A r \in 1..Len(csv.rows) :
            LET files == c1_row_files(csv.rows[r])
            IN  \E i \in 1..Len(files) : csv.rows[r].recommended_file = files[i][2]

(* a finished run whose only candidate of some group is the tesseract one,
   which is recommended *)
C4_Witness ==
    /\ prog = "tc" /\ pc = "done"
    /\ \E r \in 1..Len(csv.rows) :
          LET methods == DictGet(grouped, csv.rows[r].group)
          IN  /\ Len(methods) = 1
              /\ methods[1][1] = "tesseract_extraction"
              /\ csv.rows[r].recommendation = "Tesseract"

----------------------------------------------------------------------------
(* Properties of the metric functions *)

In01(r) == RLe(R(0), r) /\ RLe(r, R(1))

(* C5: for every text, punctuation_frequency, lexical_diversity and
   ocr_error_rate of c1_text_comparison._compute_metrics, and
   punctuation_frequency and ocr_error_rate of text_comparison, lie in [0,1]. *)
C5_RatiosInUnitInterval ==
    /\ pc = "c1_metrics" =>
          /\ In01(metrics.punctuation_frequency)
          /\ In01(metrics.lexical_diversity)
          /\ In01(metrics.ocr_error_rate)
    /\ pc = "tc_metrics" =>
          /\ In01(metrics.punctuation_freq)
          /\ In01(metrics.ocr_error_rate)
    /\ pc # "ZeroDivisionError"

(* text_comparison's metrics of a text whose punctuation frequency is strictly
   between 0 and 1 and which has more punctuation marks than words *)
C5_Witness ==
    /\ pc = "tc_metrics"
    /\ RLt(R(0), metrics.punctuation_freq)
    /\ RLt(metrics.punctuation_freq, R(1))
    /\ CountIn(text, tc_punctuation) > Len(split(text))
    /\ Len(split(text)) >= 1

whitespace_only(t) == \A i \in 1..Len(t) : t[i] \in Whitespace

(* C6: on the empty string and on whitespace-only text every metric function
   returns without a division by zero, the counts of words and sentences are 0
   and every ratio metric is 0. *)
C6_TotalOnBlankText ==
    whitespace_only(text) =>
        /\ pc # "ZeroDivisionError"
        /\ pc = "c1_metrics" =>
              /\ metrics.word_count = R(0)
              /\ metrics.sentence_count = R(0)
              /\ metrics.char_count = R(Len(text))
              /\ REq(metrics.avg_word_length, R(0))
              /\ REq(metrics.punctuation_frequency, R(0))
              /\ REq(metrics.lexical_diversity, R(0))
              /\ REq(metrics.ocr_error_rate, R(0))
        /\ pc = "tc_metrics" =>
              /\ metrics.word_count = R(0)
              /\ metrics.sentence_count = R(0)
              /\ metrics.char_count = R(Len(text))
              /\ REq(metrics.avg_word_length, R(0))
              /\ REq(metrics.punctuation_freq, R(0))
              /\ REq(metrics.ocr_error_rate, R(0))

(* text_comparison's metrics of a text made of a space and a newline *)
C6_Witness ==
    /\ pc = "tc_metrics"
    /\ text = <<" ", "\n">>
    /\ metrics.char_count = R(2)

(* a word is suspicious when it holds the replacement character, both a letter
   and a digit, or a non-ASCII character *)
stated_suspicious(w) ==
    \/ \E i \in 1..Len(w) : w[i] = ReplacementChar
    \/ (\E i \in 1..Len(w) : w[i] \in Letters) /\ (\E i \in 1..Len(w) : w[i] \in Digits)
    \/ \E i \in 1..Len(w) : w[i] \in NonAscii

(* C7: text_comparison.ocr_error_rate is the fraction of whitespace-separated
   words that hold the replacement character, mix letters and digits, or hold
   a non-ASCII character; a text of plain ASCII alphabetic words has rate 0. *)
C7_OcrErrorRateIsSuspiciousFraction ==
    pc = "tc_metrics" =>
        REq(metrics.ocr_error_rate,
            <<Cardinality({ i \in 1..Len(split(text)) : stated_suspicious(split(text)[i]) }),
              PyMaxInt(Len(split(text)), 1)>>)

----------------------------------------------------------------------------
(* Properties of the grouper of text_comparison *)

suffix_positions(name) == { i \in 1..Len(name) : name[i] \in SuffixToks }

(* C8 as stated: the key of a recognised filename is the part of the filename
   before the first occurrence of a method suffix. *)
C8_KeyPrecedesFirstSuffix ==
    pc = "matched" =>
        gkey = SubSeq(fname, 1, Min(suffix_positions(fname)) - 1)

(* a method suffix that ends the stem: it is preceded by at least one character
   and directly followed by .txt or _cleaned.txt *)
closing_suffix(name, i) ==
    /\ i >= 2 /\ i <= Len(name)
    /\ name[i] \in SuffixToks
    /\ \/ i + 1 <= Len(name) /\ name[i + 1] = TxtTok
       \/ i + 2 <= Len(name) /\ name[i + 1] = CleanedTok /\ name[i + 2] = TxtTok

(* C8: extract_group_key recognises a filename exactly when it holds a method
   suffix that is preceded by at least one character and directly followed by
   .txt or _cleaned.txt, and the key is the part of the filename before the
   first such suffix; 2019-12-k_tesseract_extraction.txt and
   2019-12-k_from_csv.txt both yield 2019-12-k. *)
C8_KeyPrecedesFirstClosingSuffix ==
    /\ pc = "matched" =>
          \E i \in 1..Len(fname) :
             /\ closing_suffix(fname, i)
             /\ \A j \in 1..(i - 1) : ~closing_suffix(fname, j)
             /\ gkey = SubSeq(fname, 1, i - 1)
    /\ pc = "unmatched" => \A i \in 1..Len(fname) : ~closing_suffix(fname, i)
    /\ (pc # "start" /\ fname \in { <<DateTok, "k", "_tesseract_extraction", TxtTok>>,
                                    <<DateTok, "k", "_from_csv", TxtTok>> })
          => gkey = <<DateTok, "k">>

(* a recognised filename whose first method suffix does not close the stem *)
C8_Witness ==
    /\ pc = "matched"
    /\ fname = <<"k", "_from_csv", "_tesseract_extraction", TxtTok>>
    /\ gkey = <<"k", "_from_csv">>

(* C9: in text_comparison.compare_folder every recognised file is stored in the
   slot of the method named by the suffix the pattern matched, the one right
   before the optional _cleaned marker and the .txt extension. *)
C9_SlotIsMatchedMethod ==
    prog = "tc" =>
        \A g \in 1..Len(grouped) :
           \A i \in 1..Len(grouped[g][2]) :
              LET m == grouped[g][2][i][1]
                  f == grouped[g][2][i][2]
              IN  m = MethodOf(f[tc_match_pos(f)])

(* C10: the grouper recognises the suffix in any letter case and normalises the
   case of the key: once a file whose lower-cased name is recognised has been
   enumerated, the slot its lower-cased name claims holds a file that differs
   from it at most in letter case. *)
C10_CaseInsensitiveGrouping ==
    prog = "tc" =>
        \A f \in DOMAIN folder \ todo :
           extract_group_key(Lower(f)) # None =>
              LET methods == DictGet(grouped, extract_group_key(Lower(f)))
              IN  /\ DictHas(grouped, extract_group_key(Lower(f)))
                  /\ DictHas(methods, tc_slot(Lower(f)))
                  /\ Lower(DictGet(methods, tc_slot(Lower(f)))) = Lower(f)

----------------------------------------------------------------------------
(* Properties of the grouping map *)

(* the file held by slot (key, m) of the grouping map g, None when empty *)
slot_file(g, key, m) == DictGet(DictGet(g, key), m)

(* the number of candidates the grouping map g holds *)
candidates(g) == SumSeq([i \in 1..Len(g) |-> Len(g[i][2])])

groups_well_formed ==
    \A g \in 1..Len(grouped) :
       LET methods == grouped[g][2]
       IN  /\ Len(methods) \in 1..3
           /\ \A i, j \in 1..Len(methods) : methods[i][1] = methods[j][1] => i = j
           /\ \A i \in 1..Len(methods) :
                 /\ methods[i][1] \in Range(tc_method_order)
                 /\ methods[i][2] \in DOMAIN folder \ todo
                 /\ extract_group_key(methods[i][2]) = grouped[g][1]

(* what enumerating the recognised file f does to the grouping map *)
claims_its_slot(f) ==
    LET key == extract_group_key(f)
    IN  /\ slot_file(grouped', key, tc_slot(f)) = f
        /\ candidates(grouped') =
              candidates(grouped) + (IF slot_file(grouped, key, tc_slot(f)) = None THEN 1 ELSE 0)
        /\ \A g \in 1..Len(grouped) : \A i \in 1..Len(grouped[g][2]) :
              <<grouped[g][1], grouped[g][2][i][1]>> # <<key, tc_slot(f)>> =>
                  slot_file(grouped', grouped[g][1], grouped[g][2][i][1]) = grouped[g][2][i][2]

(* C11: while text_comparison.compare_folder enumerates the folder, every group
   of the grouping map holds 1 to 3 candidates, at most one per method, each
   stored under the key derived from its own name; and enumerating a recognised
   file puts it in the slot it claims, replacing the file that held the slot
   (the candidate count grows only when the slot was free) and leaving every
   other slot as it was. *)
C11_SlotHoldsLastClaimant ==
    /\ [](prog = "tc" => groups_well_formed)
    /\ [][(prog = "tc" /\ pc = "glob") =>
            \A f \in todo \ todo' :
               IF extract_group_key(f) # None
               THEN claims_its_slot(f)
               ELSE grouped' = grouped]_vars

(* both claimants of the tesseract slot of one group have been enumerated and
   the group holds a single candidate *)
C11_Witness ==
    /\ prog = "tc" /\ pc = "glob" /\ todo = {}
    /\ \E f1, f2 \in DOMAIN folder :
          /\ f1 # f2
          /\ extract_group_key(f1) # None
          /\ extract_group_key(f1) = extract_group_key(f2)
          /\ tc_slot(f1) = tc_slot(f2)
          /\ Len(DictGet(grouped, extract_group_key(f1))) = 1
          /\ slot_file(grouped, extract_group_key(f1), tc_slot(f1)) \in {f1, f2}

----------------------------------------------------------------------------
(* Properties of the failure paths of compare_folder *)

(* the running script's filename pattern accepts f *)
matches_pattern(f) ==
    IF prog = "tc" THEN extract_group_key(f) # None ELSE _PATTERN_matches(f)

no_file_matches == \A f \in DOMAIN folder : ~matches_pattern(f)

(* C12: compare_folder (either script) raises FileNotFoundError exactly when no
   file of the folder matches the filename pattern, and a run over such a
   folder never creates or writes the summary CSV: it can only be enumerating
   or have raised. *)
C12_NoMatchRaisesBeforeCsv ==
    prog \in {"tc", "c1"} =>
        /\ pc = "FileNotFoundError" => (no_file_matches /\ csv = EmptyCsv)
        /\ no_file_matches => (pc \in {"glob", "FileNotFoundError"} /\ csv = EmptyCsv)
        /\ (todo = {} /\ ~no_file_matches) => (pc # "FileNotFoundError" /\ grouped # <<>>)

(* a run of text_comparison over a non-empty folder of unrecognised files has
   raised *)
C12_Witness ==
    /\ prog = "tc" /\ pc = "FileNotFoundError"
    /\ DOMAIN folder # {}
    /\ ~csv.exists

(* C13: in text_comparison.compare_folder a candidate whose file cannot be
   read or decoded does not abort the batch: the run never ends in the read's
   exception, and a finished run has written a row for every group. *)
C13_ReadFailureIsIsolated ==
    prog = "tc" =>
        /\ pc \notin {"UnicodeDecodeError", "OSError"}
        /\ pc = "done" =>
              \A g \in 1..Len(grouped) :
                 \E r \in 1..Len(csv.rows) : csv.rows[r].group = grouped[g][1]

----------------------------------------------------------------------------
(* Characters of the cleaning scripts:
     src/7_archive/b_text_cleaning.py, src/6_misc/ocr_cleaning.py
   A character is a one-character string, or "U+XXXX" for a code point
   outside ASCII. *)

AsciiLowerSeq ==
    << "a", "b", "c", "d", "e", "f", "g", "h", "i", "j", "k", "l", "m",
       "n", "o", "p", "q", "r", "s", "t", "u", "v", "w", "x", "y", "z" >>

AsciiUpperSeq ==
    << "A", "B", "C", "D", "E", "F", "G", "H", "I", "J", "K", "L", "M",
       "N", "O", "P", "Q", "R", "S", "T", "U", "V", "W", "X", "Y", "Z" >>

AsciiLower == Range(AsciiLowerSeq)
AsciiUpper == Range(AsciiUpperSeq)
AsciiLetters == AsciiLower \cup AsciiUpper
AsciiDigits == {"0", "1", "2", "3", "4", "5", "6", "7", "8", "9"}

(* the grave accent, which a TLA+ string cannot hold *)
GraveAccent == "U+0060"

(* string.punctuation *)
string_punctuation ==
    { "!", "\"", "#", "$", "%", "&", "'", "(", ")", "*", "+", ",", "-", ".",
      "/", ":", ";", "<", "=", ">", "?", "@", "[", "\\", "]", "^", "_", GraveAccent,
      "{", "|", "}", "~" }

(* the non-ASCII characters of the model *)
PoundSign == "U+00A3"
ZeroWidthSpace == "U+200B"
Bullet == "U+2022"
EnDash == "U+2013"
EmDash == "U+2014"
FullwidthExclamation == "U+FF01"
FullwidthQuestion == "U+FF1F"
FullwidthComma == "U+FF0C"
IdeographicFullStop == "U+3002"
SmartQuotes == {"U+2018", "U+2019", "U+201C", "U+201D"}

(* lower-case letters outside ASCII: e acute, y diaeresis *)
NonAsciiLower == {"U+00E9", "U+00FF"}

(* \s, and what str.strip() strips *)
ReSpace == {" ", "\n", "\t"}

(* \w and \d of a str pattern *)
ReWord == AsciiLetters \cup AsciiDigits \cup {"_"} \cup NonAsciiLower
ReDigit == AsciiDigits

IndexOf(seq, c) == CHOOSE i \in 1..Len(seq) : seq[i] = c

(* str.lower() and str.upper() of one character; the upper-case forms of the
   non-ASCII letters are not characters of the model *)
char_lower(c) == IF c \in AsciiUpper THEN AsciiLowerSeq[IndexOf(AsciiUpperSeq, c)] ELSE c
char_upper(c) == IF c \in AsciiLower THEN AsciiUpperSeq[IndexOf(AsciiLowerSeq, c)] ELSE c

str_lower(t) == [i \in 1..Len(t) |-> char_lower(t[i])]

(* c.islower() *)
char_islower(c) == c \in AsciiLower \cup NonAsciiLower

(* s.isdigit() *)
str_isdigit(t) == Len(t) > 0 /\ \A i \in 1..Len(t) : t[i] \in AsciiDigits

(* s.strip() *)
RECURSIVE str_lstrip(_)
str_lstrip(t) ==
    IF Len(t) > 0 /\ t[1] \in ReSpace THEN str_lstrip(Tail(t)) ELSE t

RECURSIVE str_rstrip(_)
str_rstrip(t) ==
    IF Len(t) > 0 /\ t[Len(t)] \in ReSpace THEN str_rstrip(SubSeq(t, 1, Len(t) - 1)) ELSE t

str_strip(t) == str_rstrip(str_lstrip(t))

(* ''.join(c for c in t if c in S) *)
RECURSIVE str_keep(_, _)
str_keep(t, S) ==
    IF Len(t) = 0 THEN <<>>
    ELSE (IF t[1] \in S THEN <<t[1]>> ELSE <<>>) \o str_keep(Tail(t), S)

(* ''.join(c for c in t if c not in S) *)
RECURSIVE str_drop(_, _)
str_drop(t, S) ==
    IF Len(t) = 0 THEN <<>>
    ELSE (IF t[1] \in S THEN <<>> ELSE <<t[1]>>) \o str_drop(Tail(t), S)

(* t.replace(old, new) for a one-character old and a string new *)
RECURSIVE str_replace(_, _, _)
str_replace(t, old, new) ==
    IF Len(t) = 0 THEN <<>>
    ELSE (IF t[1] = old THEN new ELSE <<t[1]>>) \o str_replace(Tail(t), old, new)

(* t.find(sep, i): the first occurrence of sep at or after i, or 0 *)
str_find(t, sep, i) ==
    LET found == { j \in i..(Len(t) - Len(sep) + 1) : SubSeq(t, j, j + Len(sep) - 1) = sep }
    IN  IF found = {} THEN 0 ELSE CHOOSE j \in found : \A k \in found : j <= k

(* t.split(sep): the pieces between the occurrences of sep found from the
   left, never an empty list *)
RECURSIVE str_split_from(_, _, _)
str_split_from(t, sep, i) ==
    CHOOSE out \in
      { IF j = 0 THEN <<SubSeq(t, i, Len(t))>>
        ELSE <<SubSeq(t, i, j - 1)>> \o str_split_from(t, sep, j + Len(sep))
        : j \in {str_find(t, sep, i)} } : TRUE

str_split(t, sep) == str_split_from(t, sep, 1)

(* sep.join(pieces) *)
RECURSIVE str_join(_, _)
str_join(pieces, sep) ==
    IF Len(pieces) = 0 THEN <<>>
    ELSE IF Len(pieces) = 1 THEN pieces[1]
    ELSE pieces[1] \o sep \o str_join(Tail(pieces), sep)

----------------------------------------------------------------------------
(* Regular expressions (module re).  A pattern is a tree of records; the
   matcher is the backtracking search of re: alternatives in order, greedy
   repetition, the first way to match wins. *)

Set(S) == [op |-> "set", chars |-> S]
Cat(parts) == [op |-> "cat", parts |-> parts]
Alt(parts) == [op |-> "alt", parts |-> parts]
Rep(p, lo, hi) == [op |-> "rep", of |-> p, min |-> lo, max |-> hi]
Plus(p) == Rep(p, 1, -1)
Star(p) == Rep(p, 0, -1)
Opt(p) == Rep(p, 0, 1)
Lit(str) == Cat([i \in 1..Len(str) |-> Set({str[i]})])
WordB == [op |-> "b"]
Bol == [op |-> "bol"]
Eol == [op |-> "eol"]
Ahead(p) == [op |-> "ahead", of |-> p]

(* does character c match the class S, under re.IGNORECASE when ic *)
in_set(c, S, ic) ==
    \/ c \in S
    \/ ic /\ (char_lower(c) \in S \/ char_upper(c) \in S)

(* \b at position i: between t[i-1] and t[i] *)
word_boundary(t, i) ==
    (i > 1 /\ t[i - 1] \in ReWord) # (i <= Len(t) /\ t[i] \in ReWord)

(* the end (index of the next character) of the first way the patterns of
   stack match t one after the other from position i; 0 when there is none *)
RECURSIVE re_match_end(_, _, _, _)
re_match_end(stack, t, i, ic) ==
    IF Len(stack) = 0 THEN i
    ELSE LET p == Head(stack)
             rest == Tail(stack)
         IN  CASE p.op = "set" ->
                    IF i <= Len(t) /\ in_set(t[i], p.chars, ic)
                    THEN re_match_end(rest, t, i + 1, ic)
                    ELSE 0
               [] p.op = "cat" -> re_match_end(p.parts \o rest, t, i, ic)
               [] p.op = "alt" ->
                    IF Len(p.parts) = 0 THEN 0
                    ELSE CHOOSE e \in
                           { IF r # 0 THEN r
                             ELSE re_match_end(<<Alt(Tail(p.parts))>> \o rest, t, i, ic)
                             : r \in {re_match_end(<<p.parts[1]>> \o rest, t, i, ic)} } : TRUE
               [] p.op = "rep" ->
                    IF p.max = 0 THEN re_match_end(rest, t, i, ic)
                    ELSE CHOOSE e \in
                           { IF r # 0 THEN r
                             ELSE IF p.min = 0 THEN re_match_end(rest, t, i, ic) ELSE 0
                             : r \in { re_match_end(
                                         << p.of,
                                            Rep(p.of,
                                                IF p.min > 0 THEN p.min - 1 ELSE 0,
                                                IF p.max > 0 THEN p.max - 1 ELSE p.max) >>
                                         \o rest, t, i, ic) } } : TRUE
               [] p.op = "b" -> IF word_boundary(t, i) THEN re_match_end(rest, t, i, ic) ELSE 0
               [] p.op = "bol" -> IF i = 1 THEN re_match_end(rest, t, i, ic) ELSE 0
               [] p.op = "eol" ->
                    IF i = Len(t) + 1 \/ (i = Len(t) /\ t[i] = "\n")
                    THEN re_match_end(rest, t, i, ic)
                    ELSE 0
               [] p.op = "ahead" ->
                    IF re_match_end(<<p.of>>, t, i, ic) # 0
                    THEN re_match_end(rest, t, i, ic)
                    ELSE 0

(* re.match(p, t) is not None *)
re_match(p, t) == re_match_end(<<p>>, t, 1, FALSE) # 0

(* the replacement of one match, from the matched text m; every replacement
   of the scripts is a function of the matched text *)
Const(str) == [kind |-> "const", str |-> str]
Template(kind) == [kind |-> kind, str |-> <<>>]

(* the matched text with l replaced by 1 and O by 0:
   .replace('l', '1').replace('O', '0') *)
digits_fixed(m) == str_replace(str_replace(m, "l", <<"1">>), "O", <<"0">>)

DigitSeq == <<"0", "1", "2", "3", "4", "5", "6", "7", "8", "9">>

(* int(s) of a string of digits *)
RECURSIVE str_int(_)
str_int(s) ==
    IF Len(s) = 0 THEN 0
    ELSE 10 * str_int(SubSeq(s, 1, Len(s) - 1)) + (IndexOf(DigitSeq, s[Len(s)]) - 1)

(* fix_possible_years of safe_digit_fix *)
fix_possible_years(word) ==
    LET corrected == digits_fixed(word)
    IN  IF str_isdigit(corrected) /\ 1800 <= str_int(corrected) /\ str_int(corrected) <= 2100
        THEN corrected
        ELSE word

(* the lambda of fix_word_breaks: m is word-word with a single hyphen *)
keep_long_hyphenation(m) ==
    LET h == IndexOf(m, "-")
    IN  IF h - 1 > 2 /\ Len(m) - h > 2 THEN m ELSE str_drop(m, {"-"})

re_repl(repl, m) ==
    CASE repl.kind = "const" -> repl.str
      [] repl.kind = "groups_without_space" -> str_drop(m, ReSpace)
      [] repl.kind = "last_char" -> <<m[Len(m)]>>
      [] repl.kind = "match_then_space" -> Append(m, " ")
      [] repl.kind = "group1_then_I" -> Append(SubSeq(m, 1, Len(m) - 1), "I")
      [] repl.kind = "one_then_group2" -> <<"1">> \o Tail(m)
      [] repl.kind = "word_groups" -> str_keep(m, ReWord)
      [] repl.kind = "keep_long_hyphenation" -> keep_long_hyphenation(m)
      [] repl.kind = "fix_possible_years" -> fix_possible_years(m)
      [] repl.kind = "digits_fixed" -> digits_fixed(m)

(* a call re.sub(pat, repl, text, flags): none of the patterns of the scripts
   matches the empty string *)
Sub(pat, repl) == [pat |-> pat, ic |-> FALSE, repl |-> repl]
SubI(pat, repl) == [pat |-> pat, ic |-> TRUE, repl |-> repl]

(* the start of the leftmost match at or after i, or 0 *)
RECURSIVE re_search(_, _, _)
re_search(rx, t, i) ==
    IF i > Len(t) THEN 0
    ELSE IF re_match_end(<<rx.pat>>, t, i, rx.ic) # 0 THEN i
    ELSE re_search(rx, t, i + 1)

RECURSIVE re_sub_from(_, _, _)
re_sub_from(rx, t, i) ==
    CHOOSE out \in
      { IF s = 0 THEN SubSeq(t, i, Len(t))
        ELSE CHOOSE o \in
               { SubSeq(t, i, s - 1) \o re_repl(rx.repl, SubSeq(t, s, e - 1)) \o re_sub_from(rx, t, e)
                 : e \in {re_match_end(<<rx.pat>>, t, s, rx.ic)} } : TRUE
        : s \in {re_search(rx, t, i)} } : TRUE

re_sub(rx, t) == re_sub_from(rx, t, 1)

(* text = re.sub(...) for each call of a list, in order *)
RECURSIVE re_sub_all(_, _)
re_sub_all(rxs, t) ==
    IF Len(rxs) = 0 THEN t
    ELSE CHOOSE out \in { re_sub_all(Tail(rxs), u) : u \in {re_sub(rxs[1], t)} } : TRUE

(* t.replace(old, new) for strings old (not empty) and new *)
RECURSIVE str_replace_str(_, _, _)
str_replace_str(t, old, new) ==
    IF Len(t) = 0 THEN <<>>
    ELSE IF Len(t) >= Len(old) /\ SubSeq(t, 1, Len(old)) = old
         THEN new \o str_replace_str(SubSeq(t, Len(old) + 1, Len(t)), old, new)
         ELSE <<t[1]>> \o str_replace_str(Tail(t), old, new)

----------------------------------------------------------------------------
(* TextCleaner of b_text_cleaning.py *)

(* unicodedata.normalize('NFKC', c) of the characters of the model *)
nfkc(c) ==
    CASE c = Ellipsis -> <<".", ".", ".">>
      [] c = FullwidthExclamation -> <<"!">>
      [] c = FullwidthQuestion -> <<"?">>
      [] c = FullwidthComma -> <<",">>
      [] OTHER -> <<c>>

RECURSIVE str_nfkc(_)
str_nfkc(t) == IF Len(t) = 0 THEN <<>> ELSE nfkc(t[1]) \o str_nfkc(Tail(t))

invisible_chars == {"U+200B", "U+200C", "U+200D", "U+FEFF", "U+2060"}

(* the characters of the model whose unicodedata.category starts with C *)
CategoryC == {"\n", "\t"} \cup invisible_chars

normalize_unicode(t) ==
    str_drop(str_drop(str_nfkc(t), invisible_chars), CategoryC \ {"\n", "\t"})

(* self.ocr_char_replacements as the source file defines it: the quote
   characters of the four "smart quote" lines are ASCII quotes, so the first
   two lines form one triple-quoted key and the next two are the same key *)
ocr_char_replacements ==
    << <<<<"|">>, <<"I">>>>,
       <<<<"0">>, <<"O">>>>,
       <<<<"1">>, <<"l">>>>,
       <<<<"U+FF01">>, <<"!">>>>,
       <<<<"U+FF1F">>, <<"?">>>>,
       <<<<"U+FF0C">>, <<",">>>>,
       <<<<"U+3002">>, <<".">>>>,
       <<<<":", " ", "\"", "'", "\"", ",", " ", " ", "#", " ", "S", "m", "a", "r", "t", " ", "q", "u", "o", "t", "e", "s", "\n", " ", " ", " ", " ", " ", " ", " ", " ", " ", " ", " ", " ">>, <<"'">>>>,
       <<<<"\"">>, <<"\"">>>>,
       <<<<"U+2013">>, <<"-">>>>,
       <<<<"U+2014">>, <<"-">>>> >>

RECURSIVE replace_each(_, _)
replace_each(table, t) ==
    IF Len(table) = 0 THEN t
    ELSE CHOOSE out \in
           { replace_each(Tail(table), u)
             : u \in {str_replace_str(t, table[1][1], table[1][2])} } : TRUE

ocr_word_fixes ==
    << SubI(Cat(<<WordB, Lit(<<"1", "i", "k", "e">>), WordB>>), Const(<<"l", "i", "k", "e">>)),
       SubI(Cat(<<WordB, Lit(<<"1", "i", "v", "e">>), WordB>>), Const(<<"l", "i", "v", "e">>)),
       SubI(Cat(<<WordB, Lit(<<"1", "a", "t", "e", "r">>), WordB>>), Const(<<"l", "a", "t", "e", "r">>)),
       SubI(Cat(<<WordB, Lit(<<"1", "e", "s", "s">>), WordB>>), Const(<<"l", "e", "s", "s">>)),
       Sub(Cat(<<Alt(<<Bol, Lit(<<".", " ">>)>>), Lit(<<"l">>), WordB>>), Template("group1_then_I")),
       Sub(Cat(<<WordB, Lit(<<"l", "s">>), WordB>>), Const(<<"i", "s">>)),
       Sub(Cat(<<WordB, Lit(<<"l", "f">>), WordB>>), Const(<<"I", "f">>)),
       Sub(Cat(<<WordB, Lit(<<"l", "n">>), WordB>>), Const(<<"I", "n">>)),
       Sub(Cat(<<WordB, Lit(<<"l", "t">>), WordB>>), Const(<<"I", "t">>)),
       Sub(Cat(<<WordB, Lit(<<"l", "s">>), WordB>>), Const(<<"i", "s">>)) >>

fix_ocr_character_errors(t) == re_sub_all(ocr_word_fixes, replace_each(ocr_char_replacements, t))

HostChars == AsciiLetters \cup AsciiDigits \cup {".", "-"}

noise_patterns ==
    << Set({"U+2022", "U+00B7", "U+2219", "U+25E6", "U+25AA", "U+25AB", "U+25A0", "U+25A1", "U+25B2", "U+25BC", "U+25BA", "U+25C4"}),
       Cat(<<Lit(<<"w", "w", "w", ".">>), Plus(Set(HostChars)), Lit(<<".">>), Rep(Set(AsciiLetters), 2, -1)>>),
       Cat(<<Lit(<<"h", "t", "t", "p">>), Opt(Lit(<<"s">>)), Lit(<<":", "/", "/">>), Plus(Set(HostChars)),
             Lit(<<".">>), Rep(Set(AsciiLetters), 2, -1),
             Star(Set(ReWord \cup {"/", ".", "-"}))>>),
       Cat(<<Lit(<<"@">>), Star(Set(ReSpace)), Opt(Lit(<<"\\">>)), Plus(Set(AsciiLetters)),
             Star(Set(ReSpace)), Set({"L", "l"}), Lit(<<"e", "a", "v", "e">>)>>),
       Lit(<<"H", "M", " ", "G", "o", "v", "e", "r", "n", "m", "e", "n", "t">>),
       Lit(<<"E", "U", "R", "e", "f", "e", "r", "e", "n", "d", "u", "m", ".", "g", "o", "v", ".", "u", "k">>),
       Lit(<<"v", "o", "t", "e", "l", "e", "a", "v", "e", "t", "a", "k", "e", "c", "o", "n", "t", "r", "o", "l", ".", "o", "r", "g">>),
       Cat(<<Plus(Set({"$"})), Plus(Set({"_"})), Star(Set({"$"}))>>),
       Plus(Set({EmDash})),
       Plus(Set({"="})),
       Rep(Set(ReSpace \ {"\n"}), 5, -1),
       Rep(Set({"."}), 4, -1),
       Rep(Set({"-"}), 4, -1),
       Rep(Set({"_"}), 4, -1) >>

(* for pattern in self.noise_patterns: text = re.sub(pattern, '', text, IGNORECASE) *)
remove_noise_patterns(t) ==
    re_sub_all([i \in 1..Len(noise_patterns) |-> SubI(noise_patterns[i], Const(<<>>))], t)

(* self.term_fixes, in the order of the dict *)
term_fixes ==
    << <<<<"E", " ", "U">>, <<"E", "U">>>>,
       <<<<"U", " ", "K">>, <<"U", "K">>>>,
       <<<<"N", " ", "H", " ", "S">>, <<"N", "H", "S">>>>,
       <<<<"G", " ", "D", " ", "P">>, <<"G", "D", "P">>>>,
       <<<<"V", " ", "A", " ", "T">>, <<"V", "A", "T">>>>,
       <<<<"M", " ", "P">>, <<"M", "P">>>>,
       <<<<"U", " ", "N">>, <<"U", "N">>>>,
       <<<<"N", " ", "A", " ", "T", " ", "O">>, <<"N", "A", "T", "O">>>>,
       <<<<"E", " ", "E", " ", "A">>, <<"E", "E", "A">>>>,
       <<<<"U", " ", "S">>, <<"U", "S">>>>,
       <<<<"l", "s">>, <<"i", "s">>>>,
       <<<<"l", "f">>, <<"I", "f">>>>,
       <<<<"l", "n">>, <<"I", "n">>>> >>

term_fix_sub_case_sensitive(entry) == Sub(Cat(<<WordB, Lit(entry[1]), WordB>>), Const(entry[2]))

(* re.sub(r'\b' + fragmented + r'\b', fixed, text, flags=re.IGNORECASE) *)
term_fix_sub(entry) == SubI(Cat(<<WordB, Lit(entry[1]), WordB>>), Const(entry[2]))

fragment_joins ==
    << Sub(Cat(<<WordB, Set(AsciiLetters), Plus(Set(ReSpace)), Set(AsciiLetters),
                 Plus(Set(ReSpace)), Set(AsciiLetters), WordB>>), Template("groups_without_space")),
       Sub(Cat(<<WordB, Set(ReDigit), Plus(Set(ReSpace)), Set(ReDigit),
                 Plus(Set(ReSpace)), Set(ReDigit), WordB>>), Template("groups_without_space")),
       Sub(Cat(<<WordB, Set(ReDigit), Plus(Set(ReSpace)), Set(ReDigit), WordB>>),
           Template("groups_without_space")) >>

(* fix_fragmented_text with the term fixes applied in the order of table *)
fix_fragmented_text_with(table, t) ==
    re_sub_all(fragment_joins, re_sub_all([i \in 1..Len(table) |-> term_fix_sub(table[i])], t))

fix_fragmented_text(t) == fix_fragmented_text_with(term_fixes, t)

SpacedPunctuation == {".", ",", ";", ":", "!", "?"}

punctuation_spacing ==
    << Sub(Cat(<<Plus(Set(ReSpace)), Set(SpacedPunctuation)>>), Template("last_char")),
       Sub(Cat(<<Set(SpacedPunctuation), Ahead(Set(AsciiLetters))>>), Template("match_then_space")),
       Sub(Cat(<<Set(ReDigit), Plus(Set(ReSpace)), Lit(<<".">>), Plus(Set(ReSpace)), Set(ReDigit)>>),
           Template("groups_without_space")),
       Sub(Cat(<<Plus(Set(ReSpace)), Lit(<<"\"">>)>>), Const(<<" ", "\"">>)),
       Sub(Cat(<<Lit(<<"\"">>), Plus(Set(ReSpace))>>), Const(<<"\"", " ">>)),
       Sub(Cat(<<Plus(Set(ReSpace)), Lit(<<"'">>)>>), Const(<<" ", "'">>)),
       Sub(Cat(<<Lit(<<"'">>), Plus(Set(ReSpace))>>), Const(<<"'", " ">>)) >>

fix_punctuation_spacing(t) == re_sub_all(punctuation_spacing, t)

(* text.split('\n') and the lines stripped *)
lines_of(t) == str_split(t, <<"\n">>)
join_lines(lines) == str_join(lines, <<"\n">>)

KeptAbbreviations ==
    { <<"U", "K">>, <<"E", "U">>, <<"U", "S">>, <<"U", "N">>, <<"M", "P">>, <<"P", "M">> }

page_number ==
    Cat(<<Bol, Opt(Lit(<<"-">>)), Star(Set(ReSpace)), Rep(Set(ReDigit), 1, 3),
          Star(Set(ReSpace)), Opt(Lit(<<"-">>)), Eol>>)

(* sum(c in string.punctuation for c in line) *)
punctuation_count(line) == Cardinality({ i \in 1..Len(line) : line[i] \in string_punctuation })

(* the three tests of remove_isolated_characters that skip a stripped line;
   k / n > 0.7 is 10 * k > 7 * n for the lengths of the model *)
isolated_line(line) ==
    \/ Len(line) <= 2 /\ ~str_isdigit(line) /\ line \notin KeptAbbreviations
    \/ Len(line) > 0 /\ 10 * punctuation_count(line) > 7 * Len(line)
    \/ re_match(page_number, line)

remove_isolated_characters(t) ==
    LET stripped == [i \in 1..Len(lines_of(t)) |-> str_strip(lines_of(t)[i])]
        kept(line) == ~isolated_line(line)
    IN  join_lines(SelectSeq(stripped, kept))

word_breaks ==
    << Sub(Cat(<<Plus(Set(ReWord)), Lit(<<"-">>), Star(Set(ReSpace)), Lit(<<"\n">>),
                 Star(Set(ReSpace)), Plus(Set(ReWord))>>), Template("word_groups")),
       Sub(Cat(<<Plus(Set(ReWord)), Lit(<<"-">>), Plus(Set(ReWord))>>),
           Template("keep_long_hyphenation")) >>

fix_word_breaks(t) == re_sub_all(word_breaks, t)

blank_line == Cat(<<Bol, Star(Set(ReSpace \cup {".", "_", "-"})), Eol>>)

(* len(set(line.strip())) *)
distinct_chars(line) == Cardinality({ str_strip(line)[i] : i \in 1..Len(str_strip(line)) })

excessive_line(line) ==
    \/ re_match(blank_line, line)
    \/ Len(line) > 5 /\ distinct_chars(line) <= 2

remove_excessive_whitespace_lines(t) ==
    LET kept(line) == ~excessive_line(line)
    IN  join_lines(SelectSeq(lines_of(t), kept))

(* clean_line = line.strip().lower() *)
clean_line(line) == str_lower(str_strip(line))

(* line_counts.get(key, 0): only lines longer than 10 are counted *)
line_counts(lines, key) ==
    IF Len(key) > 10
    THEN Cardinality({ i \in 1..Len(lines) : clean_line(lines[i]) = key })
    ELSE 0

(* the loop if it kept the first occurrence of a repeated line *)
RECURSIVE filtered_lines_keep_first(_, _, _)
filtered_lines_keep_first(lines, i, seen_repetitive) ==
    IF i > Len(lines) THEN <<>>
    ELSE LET key == clean_line(lines[i])
         IN  IF line_counts(lines, key) > 2 /\ key \notin seen_repetitive /\ Len(key) > 10
             THEN <<lines[i]>> \o filtered_lines_keep_first(lines, i + 1, seen_repetitive \cup {key})
             ELSE IF key \in seen_repetitive
             THEN filtered_lines_keep_first(lines, i + 1, seen_repetitive)
             ELSE <<lines[i]>> \o filtered_lines_keep_first(lines, i + 1, seen_repetitive)

(* the second loop of remove_header_footer_repetition from line i on *)
RECURSIVE filtered_lines(_, _, _)
filtered_lines(lines, i, seen_repetitive) ==
    IF i > Len(lines) THEN <<>>
    ELSE LET key == clean_line(lines[i])
         IN  IF line_counts(lines, key) > 2 /\ key \notin seen_repetitive /\ Len(key) > 10
             THEN filtered_lines(lines, i + 1, seen_repetitive \cup {key})
             ELSE IF key \in seen_repetitive
             THEN filtered_lines(lines, i + 1, seen_repetitive)
             ELSE <<lines[i]>> \o filtered_lines(lines, i + 1, seen_repetitive)

remove_header_footer_repetition(t) ==
    CHOOSE out \in { join_lines(filtered_lines(lines, 1, {})) : lines \in {lines_of(t)} } : TRUE

SentenceEnd == {".", "!", "?", ":"}

(* the loop over the lines of one paragraph: fixed_lines with the last
   current_sentence appended *)
RECURSIVE fixed_lines(_, _, _)
fixed_lines(lines, i, current_sentence) ==
    IF i > Len(lines)
    THEN IF Len(current_sentence) > 0 THEN <<current_sentence>> ELSE <<>>
    ELSE LET line == str_strip(lines[i])
         IN  IF Len(line) = 0 THEN fixed_lines(lines, i + 1, current_sentence)
             ELSE IF /\ Len(current_sentence) > 0
                     /\ current_sentence[Len(current_sentence)] \notin SentenceEnd
                     /\ char_islower(line[1])
             THEN fixed_lines(lines, i + 1, current_sentence \o <<" ">> \o line)
             ELSE (IF Len(current_sentence) > 0 THEN <<current_sentence>> ELSE <<>>)
                  \o fixed_lines(lines, i + 1, line)

(* fix_broken_sentences if the fixed lines of a paragraph were joined like
   the paragraphs are *)
fix_broken_sentences_blank_between_lines(t) ==
    LET kept(ls) == Len(ls) > 0
    IN  CHOOSE out \in
          { str_join([i \in 1..Len(joined) |-> str_join(joined[i], <<"\n", "\n">>)], <<"\n", "\n">>)
            : joined \in
                { SelectSeq([i \in 1..Len(paragraphs) |->
                               fixed_lines(lines_of(paragraphs[i]), 1, <<>>)], kept)
                  : paragraphs \in {str_split(t, <<"\n", "\n">>)} } } : TRUE

fix_broken_sentences(t) ==
    LET kept(ls) == Len(ls) > 0
    IN  CHOOSE out \in
          { str_join([i \in 1..Len(joined) |-> join_lines(joined[i])], <<"\n", "\n">>)
            : joined \in
                { SelectSeq([i \in 1..Len(paragraphs) |->
                               fixed_lines(lines_of(paragraphs[i]), 1, <<>>)], kept)
                  : paragraphs \in {str_split(t, <<"\n", "\n">>)} } } : TRUE

paragraph_breaks ==
    Sub(Cat(<<Lit(<<"\n">>), Star(Set(ReSpace)), Lit(<<"\n">>), Star(Set(ReSpace)),
              Plus(Set({"\n"}))>>), Const(<<"\n", "\n">>))

LineEnd == {".", "!", "?", ":", ";", "\"", "'"}

(* one line of the loop of normalize_spacing *)
spaced_line(lines, i) ==
    LET line == str_strip(lines[i])
    IN  IF Len(line) = 0 THEN <<>>
        ELSE IF /\ i < Len(lines)
                /\ line[Len(line)] \notin LineEnd
                /\ Len(str_strip(lines[i + 1])) > 0
                /\ char_islower(str_strip(lines[i + 1])[1])
        THEN Append(line, " ")
        ELSE line

normalize_spacing(t) ==
    CHOOSE out \in
      { join_lines([i \in 1..Len(lines) |-> spaced_line(lines, i)])
        : lines \in { lines_of(re_sub(paragraph_breaks,
                                      str_replace(re_sub(Sub(Plus(Set({" "})), Const(<<" ">>)), t),
                                                  "\t", <<" ">>))) } } : TRUE

(* the "final cleanup" of clean_text *)
final_cleanup(t) == str_strip(re_sub(paragraph_breaks, t))

clean_stages_swapped ==
    << "normalize_unicode", "fix_ocr_character_errors", "remove_noise_patterns",
       "fix_fragmented_text", "fix_punctuation_spacing", "fix_word_breaks",
       "remove_isolated_characters", "remove_excessive_whitespace_lines",
       "remove_header_footer_repetition", "fix_broken_sentences", "normalize_spacing" >>

(* the stages of clean_text in the order of its statements *)
clean_stages ==
    << "normalize_unicode", "fix_ocr_character_errors", "remove_noise_patterns",
       "fix_fragmented_text", "fix_punctuation_spacing", "remove_isolated_characters",
       "fix_word_breaks", "remove_excessive_whitespace_lines",
       "remove_header_footer_repetition", "fix_broken_sentences", "normalize_spacing" >>

(* text = self.<stage>(text) *)
apply_stage(stage, t) ==
    CASE stage = "normalize_unicode" -> normalize_unicode(t)
      [] stage = "fix_ocr_character_errors" -> fix_ocr_character_errors(t)
      [] stage = "remove_noise_patterns" -> remove_noise_patterns(t)
      [] stage = "fix_fragmented_text" -> fix_fragmented_text(t)
      [] stage = "fix_punctuation_spacing" -> fix_punctuation_spacing(t)
      [] stage = "remove_isolated_characters" -> remove_isolated_characters(t)
      [] stage = "fix_word_breaks" -> fix_word_breaks(t)
      [] stage = "remove_excessive_whitespace_lines" -> remove_excessive_whitespace_lines(t)
      [] stage = "remove_header_footer_repetition" -> remove_header_footer_repetition(t)
      [] stage = "fix_broken_sentences" -> fix_broken_sentences(t)
      [] stage = "normalize_spacing" -> normalize_spacing(t)

RECURSIVE apply_stages(_, _)
apply_stages(stages, t) ==
    IF Len(stages) = 0 THEN t
    ELSE CHOOSE out \in { apply_stages(Tail(stages), u) : u \in {apply_stage(stages[1], t)} } : TRUE

clean_text(t) ==
    CHOOSE out \in { final_cleanup(u) : u \in {apply_stages(clean_stages, t)} } : TRUE

----------------------------------------------------------------------------
(* safe_digit_fix of ocr_cleaning.py *)

DigitLike == ReDigit \cup {"O", "l"}
CurrencySymbols == {PoundSign, "$", "#", "%"}

(* the calls of safe_digit_fix without case 4, the symbol-number patterns *)
safe_digit_fixes_without_symbols ==
    << SubI(Cat(<<WordB, Lit(<<"2", "l", "s", "t">>), WordB>>), Const(<<"2", "1", "s", "t">>)),
       Sub(Cat(<<WordB, Lit(<<"l">>), Lit(<<".">>), Set(ReSpace)>>), Template("one_then_group2")),
       Sub(Cat(<<WordB, Rep(Set(DigitLike), 4, 4), WordB>>), Template("fix_possible_years")),
       Sub(Cat(<<WordB, Lit(<<PoundSign, "l">>), WordB>>), Const(<<PoundSign, "1">>)),
       Sub(Cat(<<WordB, Rep(Set(DigitLike), 2, 6), WordB>>), Template("digits_fixed")) >>

(* the calls of safe_digit_fix without case 6, the general numeric-looking
   words *)
safe_digit_fixes_without_general ==
    << SubI(Cat(<<WordB, Lit(<<"2", "l", "s", "t">>), WordB>>), Const(<<"2", "1", "s", "t">>)),
       Sub(Cat(<<WordB, Lit(<<"l">>), Lit(<<".">>), Set(ReSpace)>>), Template("one_then_group2")),
       Sub(Cat(<<WordB, Rep(Set(DigitLike), 4, 4), WordB>>), Template("fix_possible_years")),
       Sub(Cat(<<Set(CurrencySymbols), Rep(Set(DigitLike), 1, 6)>>), Template("digits_fixed")),
       Sub(Cat(<<WordB, Lit(<<PoundSign, "l">>), WordB>>), Const(<<PoundSign, "1">>)) >>

safe_digit_fixes ==
    << SubI(Cat(<<WordB, Lit(<<"2", "l", "s", "t">>), WordB>>), Const(<<"2", "1", "s", "t">>)),
       Sub(Cat(<<WordB, Lit(<<"l">>), Lit(<<".">>), Set(ReSpace)>>), Template("one_then_group2")),
       Sub(Cat(<<WordB, Rep(Set(DigitLike), 4, 4), WordB>>), Template("fix_possible_years")),
       Sub(Cat(<<Set(CurrencySymbols), Rep(Set(DigitLike), 1, 6)>>), Template("digits_fixed")),
       Sub(Cat(<<WordB, Lit(<<PoundSign, "l">>), WordB>>), Const(<<PoundSign, "1">>)),
       Sub(Cat(<<WordB, Rep(Set(DigitLike), 2, 6), WordB>>), Template("digits_fixed")) >>

safe_digit_fix(t) == re_sub_all(safe_digit_fixes, t)

----------------------------------------------------------------------------
(* clean_text, statement by statement: pc names the stage whose statement
   runs next *)

clean_text_stage(k) ==
    /\ prog = "clean_text" /\ pc = clean_stages[k]
    /\ cleaned' = apply_stage(clean_stages[k], cleaned)
    /\ pc' = IF k < Len(clean_stages) THEN clean_stages[k + 1] ELSE "final_cleanup"
    /\ UNCHANGED <<prog, folder, todo, grouped, row_i, csv, text, metrics, fname, gkey, written, df, executor, call_counter, output_file, doc_sentences, chunks, selected, fs_case_sensitive>>

clean_text_final_cleanup ==
    /\ prog = "clean_text" /\ pc = "final_cleanup"
    /\ cleaned' = final_cleanup(cleaned)
    /\ pc' = "return"
    /\ UNCHANGED <<prog, folder, todo, grouped, row_i, csv, text, metrics, fname, gkey, written, df, executor, call_counter, output_file, doc_sentences, chunks, selected, fs_case_sensitive>>

(* safe_digit_fix(text) *)
safe_digit_fix_call ==
    /\ prog = "safe_digit_fix" /\ pc = "call"
    /\ cleaned' = safe_digit_fix(text)
    /\ pc' = "return"
    /\ UNCHANGED <<prog, folder, todo, grouped, row_i, csv, text, metrics, fname, gkey, written, df, executor, call_counter, output_file, doc_sentences, chunks, selected, fs_case_sensitive>>

(* fix_fragmented_text(text) *)
fix_fragmented_text_call ==
    /\ prog = "fix_fragmented_text" /\ pc = "call"
    /\ cleaned' = fix_fragmented_text(text)
    /\ pc' = "return"
    /\ UNCHANGED <<prog, folder, todo, grouped, row_i, csv, text, metrics, fname, gkey, written, df, executor, call_counter, output_file, doc_sentences, chunks, selected, fs_case_sensitive>>

(* remove_header_footer_repetition(text) *)
remove_header_footer_repetition_call ==
    /\ prog = "remove_header_footer_repetition" /\ pc = "call"
    /\ cleaned' = remove_header_footer_repetition(text)
    /\ pc' = "return"
    /\ UNCHANGED <<prog, folder, todo, grouped, row_i, csv, text, metrics, fname, gkey, written, df, executor, call_counter, output_file, doc_sentences, chunks, selected, fs_case_sensitive>>

(* fix_ocr_character_errors(text) *)
fix_ocr_character_errors_call ==
    /\ prog = "fix_ocr_character_errors" /\ pc = "call"
    /\ cleaned' = fix_ocr_character_errors(text)
    /\ pc' = "return"
    /\ UNCHANGED <<prog, folder, todo, grouped, row_i, csv, text, metrics, fname, gkey, written, df, executor, call_counter, output_file, doc_sentences, chunks, selected, fs_case_sensitive>>

(* open(input_path, 'r', encoding='latin-1').read(): every byte is a character *)
latin1_decode(content) ==
    [i \in 1..Len(content) |-> IF content[i] = InvalidByte THEN "U+00FF" ELSE content[i]]

(* output_dir / f"{text_file.stem}_cleaned.txt" *)
cleaned_name(f) == SubSeq(f, 1, Len(f) - 1) \o <<CleanedTok, TxtTok>>

(* one turn of the loop of clean_manifesto_directory: clean_manifesto_file on
   a file the glob listed.  The first open() is guarded for UnicodeDecodeError
   only; the write may fail, which is caught *)
clean_manifesto_file(f) ==
    /\ prog = "clean_manifesto_directory" /\ pc = "loop"
    /\ f \in todo
    /\ IF read_error(folder[f]) = "OSError"
       THEN /\ pc' = "OSError"
            /\ UNCHANGED <<todo, written>>
       ELSE /\ pc' = pc
            /\ todo' = todo \ {f}
            /\ \E saved \in BOOLEAN :
                 \E out \in { clean_text(IF read_error(folder[f]) = "UnicodeDecodeError"
                                          THEN latin1_decode(folder[f])
                                          ELSE utf8_decode(folder[f])) } :
                   written' = IF saved
                              THEN [n \in DOMAIN written \cup {cleaned_name(f)} |->
                                      IF n = cleaned_name(f) THEN out ELSE written[n]]
                              ELSE written
    /\ UNCHANGED <<prog, folder, grouped, row_i, csv, text, metrics, fname, gkey, cleaned, df, executor, call_counter, output_file, doc_sentences, chunks, selected, fs_case_sensitive>>

clean_manifesto_directory_return ==
    /\ prog = "clean_manifesto_directory" /\ pc = "loop"
    /\ todo = {}
    /\ pc' = "return"
    /\ UNCHANGED <<prog, folder, todo, grouped, row_i, csv, text, metrics, fname, gkey, cleaned, written, df, executor, call_counter, output_file, doc_sentences, chunks, selected, fs_case_sensitive>>

MaxCleanLen == 3
CleanChars == {"a", "-", ".", "1", " ", "\n"}
CleanTexts == SeqsUpTo(CleanChars, MaxCleanLen)

DigitChars == {PoundSign, "l", "O", "1", " ", "a"}
DigitSamples ==
    { <<PoundSign, "l", "O", " ", "m", "i", "l", "l", "i", "o", "n">>,
      <<PoundSign, "5", " ", "l", "O">>,
      <<"$", "l", "O", "O", "l", "O", "O", "l">>,
      <<"2", "L", "S", "T", " ", "#", "l", "a">>,
      <<"%", "2", "O", "l", "O", " ", "l", ".", " ", "a">> }
DigitTexts == SeqsUpTo(DigitChars, MaxCleanLen) \cup DigitSamples

(* the ten acronyms of the term-fix table *)
Acronyms == 1..10

(* a fragmented acronym as written, in lower case, and with a lower-case
   first letter *)
case_variants(frag) ==
    { frag, str_lower(frag), <<char_lower(frag[1])>> \o Tail(frag) }

OrdinaryLeads == { <<>>, <<"t", "h", "e", " ">> }
LetterLeads == { <<"E", " ">>, <<"U", " ">> }
FollowingWords == { <<"f", "u", "n", "d", "i", "n", "g">>, <<"l", "s">> }

FragmentTexts ==
    { lead \o v \o <<" ">> \o word :
        lead \in OrdinaryLeads \cup LetterLeads,
        v \in UNION { case_variants(term_fixes[k][1]) : k \in Acronyms },
        word \in FollowingWords }

MaxDocLines == 4
HeaderLine == <<"H", "M", " ", "G", "o", "v", "e", "r", "n", "m", "e", "n", "t">>
DocLines ==
    { HeaderLine,
      <<" ", "h", "m", " ", "g", "o", "v", "e", "r", "n", "m", "e", "n", "t">>,
      <<"P", "a", "g", "e", " ", "h", "e", "a", "d", "e", "r">>,
      <<"s", "h", "o", "r", "t", " ", "l", "i", "n", "e">>,
      <<"b", "o", "d", "y">> }
Documents == { join_lines(ls) : ls \in SeqsUpTo(DocLines, MaxDocLines) \ {<<>>} }

OcrChars == {"U+2019", "U+201C", EnDash, "|", FullwidthExclamation, IdeographicFullStop, "a"}
OcrTexts == SeqsUpTo(OcrChars, MaxCleanLen)

ManifestoNames == { <<"a", TxtTok>>, <<"b", TxtTok>>, <<"c", TxtTok>> }

(* a readable file, a file with a byte that is not UTF-8, a refused file *)
ManifestoContents == { <<"a", "b", "c">>, <<"a", "b", InvalidByte>>, Unreadable }

ManifestoFolders == UNION { [S -> ManifestoContents] :
                            S \in { T \in SUBSET ManifestoNames : Cardinality(T) <= MaxFiles } }

CleanProgs ==
    {"clean_text", "safe_digit_fix", "fix_fragmented_text", "remove_header_footer_repetition",
     "fix_ocr_character_errors", "clean_manifesto_directory"}

CleanInputs(p) ==
    CASE p = "clean_text" -> CleanTexts
      [] p = "safe_digit_fix" -> DigitTexts
      [] p = "fix_fragmented_text" -> FragmentTexts
      [] p = "remove_header_footer_repetition" -> Documents
      [] p = "fix_ocr_character_errors" -> OcrTexts
      [] p = "clean_manifesto_directory" -> {<<>>}

InitClean ==
    /\ prog \in CleanProgs
    /\ pc = IF prog = "clean_text" THEN clean_stages[1]
            ELSE IF prog = "clean_manifesto_directory" THEN "loop"
            ELSE "call"
    /\ text \in CleanInputs(prog)
    /\ cleaned = text
    /\ folder \in IF prog = "clean_manifesto_directory" THEN ManifestoFolders ELSE {<<>>}
    /\ todo = IF prog = "clean_manifesto_directory" THEN DOMAIN folder ELSE {}
    /\ grouped = <<>>
    /\ row_i = 0
    /\ csv = EmptyCsv
    /\ metrics = <<>>
    /\ fname = <<>>
    /\ gkey = <<>>
    /\ written = <<>>
    /\ df = <<>> /\ executor = <<>> /\ call_counter = 0 /\ output_file = <<>>
    /\ doc_sentences = <<>> /\ chunks = <<>> /\ selected = <<>> /\ fs_case_sensitive = TRUE

NextClean ==
    \/ \E k \in 1..Len(clean_stages) : clean_text_stage(k)
    \/ clean_text_final_cleanup
    \/ safe_digit_fix_call
    \/ fix_fragmented_text_call
    \/ remove_header_footer_repetition_call
    \/ fix_ocr_character_errors_call
    \/ \E f \in ManifestoNames : clean_manifesto_file(f)
    \/ clean_manifesto_directory_return

SpecClean == InitClean /\ [][NextClean]_vars

----------------------------------------------------------------------------
(* C14: no file of the batch makes the run raise: a file that cannot be read
   is skipped, and the run returns only after every file has been handled *)
C14_UnreadableFileIsSkipped ==
    prog = "clean_manifesto_directory" =>
        /\ pc \in {"loop", "return"}
        /\ (pc = "return" => todo = {})

----------------------------------------------------------------------------
(* C15: the pipeline is idempotent: cleaning the result of clean_text again
   gives the same text *)
C15_CleanTextIdempotent ==
    (prog = "clean_text" /\ pc = "return") => clean_text(cleaned) = cleaned

ClaimedOrder ==
    << "normalize_unicode", "fix_ocr_character_errors", "remove_noise_patterns",
       "fix_fragmented_text", "fix_punctuation_spacing", "remove_isolated_characters",
       "fix_word_breaks", "remove_excessive_whitespace_lines",
       "remove_header_footer_repetition", "fix_broken_sentences", "normalize_spacing",
       "final_cleanup" >>

stage_result(k, t) ==
    CASE k = 1 -> normalize_unicode(t)
      [] k = 2 -> fix_ocr_character_errors(t)
      [] k = 3 -> remove_noise_patterns(t)
      [] k = 4 -> fix_fragmented_text(t)
      [] k = 5 -> fix_punctuation_spacing(t)
      [] k = 6 -> remove_isolated_characters(t)
      [] k = 7 -> fix_word_breaks(t)
      [] k = 8 -> remove_excessive_whitespace_lines(t)
      [] k = 9 -> remove_header_footer_repetition(t)
      [] k = 10 -> fix_broken_sentences(t)
      [] k = 11 -> normalize_spacing(t)

(* C16: clean_text starts with Unicode normalisation on its input, and every
   step it takes runs the stage at the head of the fixed order on the text the
   previous stage left and moves on to the stage that follows, so that each of
   the eleven stages runs once, none is skipped and none is reordered *)
C16_StagesInFixedOrder ==
    /\ (prog = "clean_text" => pc = ClaimedOrder[1] /\ cleaned = text)
    /\ [][prog = "clean_text" /\ pc \in {ClaimedOrder[k] : k \in 1..11} =>
            \E k \in 1..11 :
                /\ pc = ClaimedOrder[k]
                /\ cleaned' = stage_result(k, cleaned)
                /\ pc' = ClaimedOrder[k + 1]]_vars

C16_Witness ==
    /\ prog = "clean_text" /\ pc = "return"
    /\ text = <<"a", "-", "a">>
    /\ cleaned = <<"a", "a">>

----------------------------------------------------------------------------
fixed_char(c) == IF c = "l" THEN "1" ELSE IF c = "O" THEN "0" ELSE c

(* the positions of the 1 to 6 digit-like characters that follow a symbol at i *)
symbol_run(t, i) ==
    { j \in (i + 1)..(i + 6) : j <= Len(t) /\ \A k \in (i + 1)..j : t[k] \in DigitLike }

in_symbol_run(t, j) ==
    \E i \in 1..Len(t) : t[i] \in CurrencySymbols /\ j \in symbol_run(t, i)

(* j lies in an occurrence of the word 2lst, in any case *)
in_2lst(t, j) ==
    \E s \in 1..j : re_match_end(<<safe_digit_fixes[1].pat>>, t, s, TRUE) > j

PoundLine == <<PoundSign, "l", "O", " ", "m", "i", "l", "l", "i", "o", "n">>

(* C17 as stated: the symbol runs are fixed, and every character outside them
   is the character of the input *)
C17_RestOfLineUnchanged ==
    (prog = "safe_digit_fix" /\ pc = "return") =>
        /\ Len(cleaned) = Len(text)
        /\ \A j \in 1..Len(text) :
              IF in_symbol_run(text, j)
              THEN cleaned[j] = fixed_char(text[j])
              ELSE cleaned[j] = text[j]

(* C17, amended: the symbol runs are fixed and the line '£lO million' becomes
   '£10 million'; the output has the length of the input, and outside the
   symbol runs a character is the input's character, or the fixed form of an
   l or O that another case of the function rewrote, or part of a 2lst the
   first case rewrote *)
C17_SymbolRunsFixed ==
    (prog = "safe_digit_fix" /\ pc = "return") =>
        /\ Len(cleaned) = Len(text)
        /\ \A j \in 1..Len(text) :
              IF in_symbol_run(text, j)
              THEN cleaned[j] = fixed_char(text[j])
              ELSE \/ cleaned[j] = text[j]
                   \/ cleaned[j] = fixed_char(text[j])
                   \/ in_2lst(text, j)
        /\ (text = PoundLine =>
              cleaned = <<PoundSign, "1", "0", " ", "m", "i", "l", "l", "i", "o", "n">>)

C17_Witness ==
    /\ prog = "safe_digit_fix" /\ pc = "return"
    /\ text = PoundLine
    /\ cleaned = <<PoundSign, "1", "0", " ", "m", "i", "l", "l", "i", "o", "n">>

----------------------------------------------------------------------------
(* the table without its entry k *)
table_without(table, k) ==
    [i \in 1..(Len(table) - 1) |-> IF i < k THEN table[i] ELSE table[i + 1]]

(* orders of the table: as written, reversed, and each entry moved to the
   front and to the back *)
TermOrders ==
    { term_fixes, [i \in 1..Len(term_fixes) |-> term_fixes[Len(term_fixes) + 1 - i]] }
    \cup { <<term_fixes[k]>> \o table_without(term_fixes, k) : k \in 1..Len(term_fixes) }
    \cup { Append(table_without(term_fixes, k), term_fixes[k]) : k \in 1..Len(term_fixes) }

(* the following word after the stage: ls is itself an entry of the table *)
word_fixed(word) == IF word = <<"l", "s">> THEN <<"i", "s">> ELSE word

(* the occurrence of acronym k at the end of lead, followed by word, has
   become the canonical form, whatever the order of the table *)
acronym_joined(leads) ==
    \A k \in Acronyms : \A v \in case_variants(term_fixes[k][1]) :
      \A lead \in leads : \A word \in FollowingWords :
        text = lead \o v \o <<" ">> \o word =>
          /\ cleaned = lead \o term_fixes[k][2] \o <<" ">> \o word_fixed(word)
          /\ \A table \in TermOrders : fix_fragmented_text_with(table, text) = cleaned

(* C18 as stated: every word-boundary-delimited occurrence of a fragmented
   acronym that an ordinary word follows becomes the canonical form,
   regardless of the order of the table *)
C18_AcronymJoinedAnyOrder ==
    (prog = "fix_fragmented_text" /\ pc = "return") =>
        acronym_joined(OrdinaryLeads \cup LetterLeads)

(* C18, amended: the same for an occurrence that no single-letter word
   precedes; N H S funding becomes NHS funding *)
C18_AcronymJoinedAfterOrdinaryWord ==
    (prog = "fix_fragmented_text" /\ pc = "return") =>
        /\ acronym_joined(OrdinaryLeads)
        /\ (text = <<"N", " ", "H", " ", "S", " ", "f", "u", "n", "d", "i", "n", "g">> =>
              cleaned = <<"N", "H", "S", " ", "f", "u", "n", "d", "i", "n", "g">>)

C18_Witness ==
    /\ prog = "fix_fragmented_text" /\ pc = "return"
    /\ text = <<"t", "h", "e", " ", "n", " ", "h", " ", "s", " ", "f", "u", "n", "d", "i", "n", "g">>
    /\ cleaned = <<"t", "h", "e", " ", "N", "H", "S", " ", "f", "u", "n", "d", "i", "n", "g">>

----------------------------------------------------------------------------
(* a line is boilerplate when its trimmed lower-cased form is longer than 10
   characters and is the form of more than two lines of the document *)
boilerplate(lines, line) ==
    /\ Len(clean_line(line)) > 10
    /\ Cardinality({ i \in 1..Len(lines) : clean_line(lines[i]) = clean_line(line) }) > 2

without_boilerplate(lines) ==
    LET kept(line) == ~boilerplate(lines, line)
    IN  SelectSeq(lines, kept)

(* C19: the output is the document without any of its boilerplate lines, the
   first occurrence included, the other lines unchanged and in their order; a
   line HM Government that occurs 4 times is absent *)
C19_EveryRepetitionRemoved ==
    (prog = "remove_header_footer_repetition" /\ pc = "return") =>
        /\ lines_of(cleaned) = ( IF without_boilerplate(lines_of(text)) = <<>> THEN <<<<>>>>
                                 ELSE without_boilerplate(lines_of(text)) )
        /\ (Cardinality({ i \in 1..Len(lines_of(text)) : lines_of(text)[i] = HeaderLine }) = 4 =>
              \A i \in 1..Len(lines_of(cleaned)) : lines_of(cleaned)[i] # HeaderLine)

C19_Witness ==
    /\ prog = "remove_header_footer_repetition" /\ pc = "return"
    /\ lines_of(text) = <<HeaderLine, <<"b", "o", "d", "y">>, HeaderLine, HeaderLine>>
    /\ cleaned = <<"b", "o", "d", "y">>

----------------------------------------------------------------------------
(* the characters the substitution table is meant to fold *)
FoldedChars ==
    SmartQuotes \cup {EnDash, EmDash, "|", FullwidthExclamation, FullwidthQuestion,
                      FullwidthComma, IdeographicFullStop}

(* C20: the output of fix_ocr_character_errors contains no smart quote, no en
   or em dash, no pipe and no full-width ! ? , . *)
C20_NoFoldedCharLeft ==
    (prog = "fix_ocr_character_errors" /\ pc = "return") =>
        \A i \in 1..Len(cleaned) : cleaned[i] \notin FoldedChars

----------------------------------------------------------------------------
(* The repair stages on their own, and clean_text on documents of several
   lines *)

(* fix_word_breaks(text) *)
fix_word_breaks_call ==
    /\ prog = "fix_word_breaks" /\ pc = "call"
    /\ cleaned' = fix_word_breaks(text)
    /\ pc' = "return"
    /\ UNCHANGED <<prog, folder, todo, grouped, row_i, csv, text, metrics, fname, gkey, written, df, executor, call_counter, output_file, doc_sentences, chunks, selected, fs_case_sensitive>>

(* normalize_spacing(text) *)
normalize_spacing_call ==
    /\ prog = "normalize_spacing" /\ pc = "call"
    /\ cleaned' = normalize_spacing(text)
    /\ pc' = "return"
    /\ UNCHANGED <<prog, folder, todo, grouped, row_i, csv, text, metrics, fname, gkey, written, df, executor, call_counter, output_file, doc_sentences, chunks, selected, fs_case_sensitive>>

MaxHyphenLen == 7
HyphenChars == {"a", "-"}
HyphenSamples ==
    { <<"a", "b", "-", "\n", "c", "d">>,
      <<"w", "e", "l", "l", "-", "b", "e", "i", "n", "g">>,
      <<"c", "o", "-", "o", "p">>,
      <<"a", "b", "c", "-", " ", "\n", " ", "d", "e", "-", "f", "g", "h">> }
HyphenTexts == SeqsUpTo(HyphenChars, MaxHyphenLen) \cup HyphenSamples

MaxSpaceLen == 4
SpaceChars == {"a", " ", "\t", "\n"}
SpaceTexts == SeqsUpTo(SpaceChars, MaxSpaceLen)

MaxParaLines == 4
ParaLines ==
    { <<"A", "a", "a", ".">>, <<"b", "b", "b">>, <<>>, <<" ">>, <<"a", "-">> }
ParagraphTexts == { join_lines(ls) : ls \in SeqsUpTo(ParaLines, MaxParaLines) \ {<<>>} }

(* 4-character tokens of digits, O and l, alone or between words *)
YearChars == {"l", "O", "0", "1", "2", "9"}
YearTokens == [1..4 -> YearChars]
YearLeads == { <<>>, <<"i", "n", " ">> }
YearTrails == { <<>>, <<" ", "a">> }
YearTexts == { lead \o tok \o trail : lead \in YearLeads, tok \in YearTokens, trail \in YearTrails }

MaxTokens == 3
NumberTokens ==
    { <<"2", "0", "1", "0">>, <<"1", "0">>, <<"7">>, <<"i", "n">>, <<"1", "i", "k", "e">> }
NumberTexts == { str_join(ws, <<" ">>) : ws \in SeqsUpTo(NumberTokens, MaxTokens) \ {<<>>} }

RepairProgs ==
    {"fix_word_breaks", "normalize_spacing", "clean_text", "safe_digit_fix",
     "fix_ocr_character_errors"}

RepairInputs(p) ==
    CASE p = "fix_word_breaks" -> HyphenTexts
      [] p = "normalize_spacing" -> SpaceTexts
      [] p = "clean_text" -> ParagraphTexts \cup SpaceTexts \cup NumberTexts
      [] p = "safe_digit_fix" -> YearTexts
      [] p = "fix_ocr_character_errors" -> NumberTexts

InitRepair ==
    /\ prog \in RepairProgs
    /\ pc = IF prog = "clean_text" THEN clean_stages[1] ELSE "call"
    /\ text \in RepairInputs(prog)
    /\ cleaned = text
    /\ folder = <<>>
    /\ todo = {}
    /\ grouped = <<>>
    /\ row_i = 0
    /\ csv = EmptyCsv
    /\ metrics = <<>>
    /\ fname = <<>>
    /\ gkey = <<>>
    /\ written = <<>>
    /\ df = <<>> /\ executor = <<>> /\ call_counter = 0 /\ output_file = <<>>
    /\ doc_sentences = <<>> /\ chunks = <<>> /\ selected = <<>> /\ fs_case_sensitive = TRUE

NextRepair ==
    \/ \E k \in 1..Len(clean_stages) : clean_text_stage(k)
    \/ clean_text_final_cleanup
    \/ fix_word_breaks_call
    \/ normalize_spacing_call
    \/ safe_digit_fix_call
    \/ fix_ocr_character_errors_call

SpecRepair == InitRepair /\ [][NextRepair]_vars

----------------------------------------------------------------------------
(* the maximal run of word characters that ends at i, and the one that
   starts at i, as index sets *)
word_run_before(t, i) ==
    { j \in 1..i : \A k \in j..i : t[k] \in ReWord }
word_run_after(t, i) ==
    { j \in i..Len(t) : \A k \in i..j : t[k] \in ReWord }

(* the hyphens of t directly between two runs of word characters *)
inner_hyphens(t) ==
    { i \in 2..(Len(t) - 1) : t[i] = "-" /\ t[i - 1] \in ReWord /\ t[i + 1] \in ReWord }

(* C21: after fix_word_breaks every hyphen left directly between two runs of
   word characters has more than 2 characters in the run on each side *)
C21_HyphenOnlyBetweenLongRuns ==
    (prog = "fix_word_breaks" /\ pc = "return") =>
        \A i \in inner_hyphens(cleaned) :
            /\ Cardinality(word_run_before(cleaned, i - 1)) > 2
            /\ Cardinality(word_run_after(cleaned, i + 1)) > 2

----------------------------------------------------------------------------
has_tab_or_space_run(t) ==
    \/ \E i \in 1..Len(t) : t[i] = "\t"
    \/ \E i \in 1..(Len(t) - 1) : t[i] = " " /\ t[i + 1] = " "

(* C22: the output of normalize_spacing, and of clean_text, holds no tab and
   no run of two or more spaces *)
C22_NoTabNoSpaceRun ==
    (prog \in {"normalize_spacing", "clean_text"} /\ pc = "return") =>
        ~has_tab_or_space_run(cleaned)

----------------------------------------------------------------------------
has_empty_line(t) == \E i \in 1..(Len(t) - 1) : t[i] = "\n" /\ t[i + 1] = "\n"

(* the positions of clean_text after the statement of remove_isolated_characters *)
AfterLineDropping ==
    { clean_stages[k] : k \in 7..Len(clean_stages) } \cup {"final_cleanup", "return"}

(* C27: the output of clean_text holds no empty line: the line-dropping
   stages remove every blank line and no later stage brings one back *)
C27_NoEmptyLine ==
    (prog = "clean_text" /\ pc \in AfterLineDropping) => ~has_empty_line(cleaned)

(* a document with a paragraph separator whose cleaned text still has
   several lines *)
C27_Witness ==
    /\ prog = "clean_text" /\ pc = "return"
    /\ has_empty_line(text)
    /\ \E i \in 1..Len(cleaned) : cleaned[i] = "\n"

----------------------------------------------------------------------------
(* the 4-character token of a text of YearTexts, and where it starts *)
year_start(t) == IF t[1] = "i" THEN 4 ELSE 1
year_token(t) == SubSeq(t, year_start(t), year_start(t) + 3)
year_in_range(tok) ==
    /\ str_isdigit(digits_fixed(tok))
    /\ 1800 <= str_int(digits_fixed(tok)) /\ str_int(digits_fixed(tok)) <= 2100

(* C28 as stated: the token is rewritten into digits only when the rewritten
   token is a number from 1800 to 2100; any other token is in the output
   unchanged *)
C28_RewrittenOnlyInYearRange ==
    (prog = "safe_digit_fix" /\ pc = "return") =>
        year_token(cleaned) = IF year_in_range(year_token(text))
                              THEN digits_fixed(year_token(text))
                              ELSE year_token(text)

(* C28 as amended: the token is rewritten into digits whatever its value, and
   the words around it are kept *)
C28_RewrittenWhateverValue ==
    (prog = "safe_digit_fix" /\ pc = "return") =>
        /\ Len(cleaned) = Len(text)
        /\ year_token(cleaned) = digits_fixed(year_token(text))
        /\ \A i \in 1..Len(text) :
             i \notin year_start(text)..(year_start(text) + 3) => cleaned[i] = text[i]

(* lOOO between words: 1000 is no year of the range, and it is rewritten *)
C28_Witness ==
    /\ prog = "safe_digit_fix" /\ pc = "return"
    /\ text = <<"i", "n", " ", "l", "O", "O", "O", " ", "a">>
    /\ cleaned = <<"i", "n", " ", "1", "0", "0", "0", " ", "a">>

----------------------------------------------------------------------------
(* the tokens of a one-line text *)
tokens_of(t) == str_split(t, <<" ">>)

(* C29: every token of decimal digits only is left unchanged by
   fix_ocr_character_errors, and so by clean_text *)
C29_NumericTokensUnchanged ==
    (prog \in {"fix_ocr_character_errors", "clean_text"} /\ pc = "return" /\ text \in NumberTexts) =>
        \E before \in {tokens_of(text)} : \E after \in {tokens_of(cleaned)} :
            /\ Len(after) = Len(before)
            /\ \A i \in 1..Len(before) : str_isdigit(before[i]) => after[i] = before[i]

----------------------------------------------------------------------------
(* labelling.py: process_construct_parallel.

   The DataFrame is held by columns: df.chunk_text[i] and df.label[i] are
   the cells of row i, df.label being the column of the construct; a frame
   read without that column has no label field.  A missing label (NaN) is
   None, a label is Some(1) or Some(0).
   The pool runs the submitted calls in submission order, at most
   max_workers at a time.  as_completed yields the futures that had finished
   when it was called in no particular order, and the others in the order
   they finish. *)

save_interval == 1000

(* rows of the small frames; finished futures the loop has not taken yet *)
MaxRows == 3
MaxBacklog == 3

(* the chunks of the frames: the service answers the prompt built for a chunk
   with a text, or the call raises *)
ChunkTextSeq == << <<"a">>, <<"b">>, <<"c">> >>
ChunkTexts == Range(ChunkTextSeq)
Raised == <<"Exception">>

(* client.chat.completions.create(...).choices[0].message.content *)
chat_completion(chunk_text) ==
    CASE chunk_text = <<"a">> -> <<" ", "Y", "e", "s", ".">>
      [] chunk_text = <<"b">> -> <<"N", "o">>
      [] OTHER -> Raised

(* 1 if text.strip().lower().startswith("yes") else 0 *)
extract_yes_no(reply) ==
    LET answer == str_lower(str_strip(reply))
    IN  IF Len(answer) >= 3 /\ SubSeq(answer, 1, 3) = <<"y", "e", "s">> THEN 1 ELSE 0

(* the result of call_openai(row_index, construct, definition, chunk_text) *)
call_openai(chunk_text) ==
    IF chat_completion(chunk_text) = Raised
    THEN None
    ELSE Some(extract_yes_no(chat_completion(chunk_text)))

(* df[df[construct].isna()], as the row indices in frame order *)
rows_to_process(frame) ==
    LET isna(i) == frame.label[i] = None
    IN  SelectSeq([i \in 1..Len(frame.label) |-> i], isna)

(* the orders a set of finished futures can be iterated in *)
orders(s) == { p \in [1..Len(s) -> Range(s)] : Range(p) = Range(s) }

(* if construct not in df.columns: df[construct] = None *)
add_column ==
    /\ prog = "labelling" /\ pc = "start"
    /\ df' = IF "label" \in DOMAIN df THEN df
             ELSE [chunk_text |-> df.chunk_text,
                   label |-> [i \in 1..Len(df.chunk_text) |-> None]]
    /\ pc' = "submit"
    /\ UNCHANGED <<prog, folder, todo, grouped, row_i, csv, text, metrics, fname, gkey, cleaned, written, executor, call_counter, output_file, doc_sentences, chunks, selected, fs_case_sensitive>>

(* futures = {executor.submit(call_openai, i, ..., row["chunk_text"]): i
              for i, row in rows_to_process.iterrows()} *)
submit ==
    /\ prog = "labelling" /\ pc = "submit"
    /\ \E rows \in {rows_to_process(df)} :
         executor' = [executor EXCEPT
                        !.futures = [i \in Range(rows) |->
                                       [chunk_text |-> df.chunk_text[i], state |-> "PENDING",
                                        result |-> None]],
                        !.queue = rows]
    /\ pc' = "as_completed"
    /\ UNCHANGED <<prog, folder, todo, grouped, row_i, csv, text, metrics, fname, gkey, cleaned, written, df, call_counter, output_file, doc_sentences, chunks, selected, fs_case_sensitive>>

(* a free worker takes the next call of the queue *)
call_openai_start ==
    /\ prog = "labelling" /\ pc \in {"as_completed", "loop"}
    /\ Len(executor.queue) > 0
    /\ Cardinality(executor.running) < executor.max_workers
    /\ executor' = [executor EXCEPT
                      !.futures[Head(executor.queue)].state = "RUNNING",
                      !.running = @ \cup {Head(executor.queue)},
                      !.queue = Tail(@)]
    /\ UNCHANGED <<prog, pc, folder, todo, grouped, row_i, csv, text, metrics, fname, gkey, cleaned, written, df, call_counter, output_file, doc_sentences, chunks, selected, fs_case_sensitive>>

(* call_openai returns in the worker that runs the call of row i: the result
   is set on the future, which joins the finished futures *)
call_openai_return(i) ==
    /\ prog = "labelling" /\ pc \in {"as_completed", "loop"}
    /\ i \in executor.running
    /\ Len(executor.finished) < MaxBacklog
    /\ executor' = [executor EXCEPT
                      !.futures[i].state = "FINISHED",
                      !.futures[i].result = call_openai(executor.futures[i].chunk_text),
                      !.running = @ \ {i},
                      !.finished = Append(@, i)]
    /\ UNCHANGED <<prog, pc, folder, todo, grouped, row_i, csv, text, metrics, fname, gkey, cleaned, written, df, call_counter, output_file, doc_sentences, chunks, selected, fs_case_sensitive>>

(* as_completed(futures) is called: the futures already finished come first,
   in the order of a set *)
as_completed ==
    /\ prog = "labelling" /\ pc = "as_completed"
    /\ \E order \in orders(executor.finished) :
         executor' = [executor EXCEPT !.finished = order]
    /\ pc' = "loop"
    /\ UNCHANGED <<prog, folder, todo, grouped, row_i, csv, text, metrics, fname, gkey, cleaned, written, df, call_counter, output_file, doc_sentences, chunks, selected, fs_case_sensitive>>

(* the loop body if it never saved *)
record_result_without_checkpoint ==
    /\ prog = "labelling" /\ pc = "loop"
    /\ Len(executor.finished) > 0
    /\ \E idx \in {Head(executor.finished)} :
         /\ df' = [df EXCEPT !.label[idx] = executor.futures[idx].result]
         /\ executor' = [executor EXCEPT !.finished = Tail(@), !.futures[idx].state = "YIELDED"]
    /\ call_counter' = call_counter + 1
    /\ UNCHANGED <<prog, pc, folder, todo, grouped, row_i, csv, text, metrics, fname, gkey, cleaned, written, output_file, doc_sentences, chunks, selected, fs_case_sensitive>>

(* the loop body if it wrote the result to the row at the position of the
   loop, not to the row of the future *)
record_result_by_position ==
    /\ prog = "labelling" /\ pc = "loop"
    /\ Len(executor.finished) > 0
    /\ \E idx \in {Head(executor.finished)} :
         /\ df' = [df EXCEPT !.label[call_counter + 1] = executor.futures[idx].result]
         /\ executor' = [executor EXCEPT !.finished = Tail(@), !.futures[idx].state = "YIELDED"]
    /\ call_counter' = call_counter + 1
    /\ output_file' = IF call_counter' % save_interval = 0 THEN Some(df') ELSE output_file
    /\ UNCHANGED <<prog, pc, folder, todo, grouped, row_i, csv, text, metrics, fname, gkey, cleaned, written, doc_sentences, chunks, selected, fs_case_sensitive>>

(* one turn of the loop over as_completed(futures):
     idx, result = future.result(); df.at[idx, construct] = result
     call_counter += 1
     if call_counter % save_interval == 0: df.to_csv(output_file) *)
record_result ==
    /\ prog = "labelling" /\ pc = "loop"
    /\ Len(executor.finished) > 0
    /\ \E idx \in {Head(executor.finished)} :
         /\ df' = [df EXCEPT !.label[idx] = executor.futures[idx].result]
         /\ executor' = [executor EXCEPT !.finished = Tail(@), !.futures[idx].state = "YIELDED"]
    /\ call_counter' = call_counter + 1
    /\ output_file' = IF call_counter' % save_interval = 0 THEN Some(df') ELSE output_file
    /\ UNCHANGED <<prog, pc, folder, todo, grouped, row_i, csv, text, metrics, fname, gkey, cleaned, written, doc_sentences, chunks, selected, fs_case_sensitive>>

(* as_completed is exhausted, the pool shuts down, and the frame is saved:
     df.to_csv(output_file, index=False); return df *)
save_and_return ==
    /\ prog = "labelling" /\ pc = "loop"
    /\ Len(executor.queue) = 0 /\ executor.running = {} /\ Len(executor.finished) = 0
    /\ output_file' = Some(df)
    /\ pc' = "return"
    /\ UNCHANGED <<prog, folder, todo, grouped, row_i, csv, text, metrics, fname, gkey, cleaned, written, df, executor, call_counter, doc_sentences, chunks, selected, fs_case_sensitive>>

(* the labels a row has when the frame is read *)
ReadLabels == {None, Some(1)}

SmallFrames ==
    UNION { { [chunk_text |-> ct, label |-> lb] :
                ct \in [1..n -> ChunkTexts], lb \in [1..n -> ReadLabels] }
            \cup { [chunk_text |-> ct] : ct \in [1..n -> ChunkTexts] }
            : n \in 0..MaxRows }

(* frames with enough unlabelled rows for the loop to reach save_interval *)
LargeFrames ==
    { [chunk_text |-> [i \in 1..n |-> ChunkTextSeq[(i % 3) + 1]],
       label |-> [i \in 1..n |-> IF i = 2 THEN Some(1) ELSE None]]
      : n \in {save_interval + 1, save_interval + 2} }

LabelInputs ==
    (SmallFrames \X {1, 2}) \cup (LargeFrames \X {1})

InitLabel ==
    /\ prog = "labelling"
    /\ pc = "start"
    /\ \E input \in LabelInputs :
         /\ df = input[1]
         /\ executor = [max_workers |-> input[2], futures |-> <<>>, queue |-> <<>>,
                         running |-> {}, finished |-> <<>>]
    /\ call_counter = 0
    /\ output_file = None
    /\ folder = <<>>
    /\ todo = {}
    /\ grouped = <<>>
    /\ row_i = 0
    /\ csv = EmptyCsv
    /\ text = <<>>
    /\ metrics = <<>>
    /\ fname = <<>>
    /\ gkey = <<>>
    /\ cleaned = <<>>
    /\ written = <<>>
    /\ doc_sentences = <<>> /\ chunks = <<>> /\ selected = <<>> /\ fs_case_sensitive = TRUE

NextLabel ==
    \/ add_column
    \/ submit
    \/ call_openai_start
    \/ \E i \in executor.running : call_openai_return(i)
    \/ as_completed
    \/ record_result
    \/ save_and_return

SpecLabel == InitLabel /\ [][NextLabel]_vars

----------------------------------------------------------------------------
(* C23: the frame is written to output_file right after every
   save_interval-th recorded result, before the next result is recorded, and
   once more when all calls have completed; at return the file holds every
   recorded result *)
C23_CheckpointEveryIntervalAndAtEnd ==
    /\ [][(prog = "labelling" /\ call_counter' # call_counter
            /\ call_counter' % save_interval = 0) => output_file' = Some(df')]_vars
    /\ [][(prog = "labelling" /\ call_counter' # call_counter
            /\ call_counter % save_interval = 0 /\ call_counter > 0) => output_file = Some(df)]_vars
    /\ [](prog = "labelling" /\ pc = "return" =>
            /\ output_file = Some(df)
            /\ call_counter = Cardinality(DOMAIN executor.futures)
            /\ \A i \in DOMAIN executor.futures :
                 /\ executor.futures[i].state = "YIELDED"
                 /\ output_file[1].label[i] = executor.futures[i].result)

(* the checkpoint has just been written while calls are still to come *)
C23_Witness ==
    /\ prog = "labelling" /\ pc = "loop"
    /\ call_counter = save_interval
    /\ output_file = Some(df)
    /\ Len(executor.queue) + Cardinality(executor.running) + Len(executor.finished) > 0

----------------------------------------------------------------------------
(* C24: only the rows without a label are submitted; at return each of them
   holds the result of the call made for its own chunk_text; the other rows
   are never changed; the workers never write the frame *)
C24_EachRowHoldsItsOwnResult ==
    /\ [][(prog = "labelling" /\ pc = "submit" /\ pc' # pc) =>
            /\ DOMAIN executor'.futures = { i \in 1..Len(df.label) : df.label[i] = None }
            /\ \A i \in DOMAIN executor'.futures :
                 executor'.futures[i].chunk_text = df.chunk_text[i]]_vars
    /\ [][(prog = "labelling" /\ pc \in {"as_completed", "loop"}) =>
            /\ df'.chunk_text = df.chunk_text
            /\ \A i \in 1..Len(df.label) :
                 i \notin DOMAIN executor.futures => df'.label[i] = df.label[i]
            /\ (call_counter' = call_counter => df' = df)]_vars
    /\ [](prog = "labelling" /\ pc = "return" =>
            \A i \in DOMAIN executor.futures :
                df.label[i] = call_openai(df.chunk_text[i]))

(* a run that returned with a row that was labelled before, and rows whose
   calls answered yes, answered no and raised *)
C24_Witness ==
    /\ prog = "labelling" /\ pc = "return"
    /\ \E i \in 1..Len(df.label) : i \notin DOMAIN executor.futures
    /\ \E i, j, k \in DOMAIN executor.futures :
         /\ df.label[i] = Some(1) /\ df.label[j] = Some(0) /\ df.label[k] = None
         /\ j < i

----------------------------------------------------------------------------
(* text_file_chunking.py, and process_txt_folder of
   7_archive/d_text_file_chunking.py (prefix d_), which returns the chunks
   without the capitalisation fix.

   A document is given by the sentences sent_tokenize returns for its text.
   A row of the chunk CSV is a record of its three cells. *)

max_length == 280

(* the indices of t in order *)
indices(t) == [i \in 1..Len(t) |-> i]

(* text.split(): the maximal runs of characters that are not whitespace *)
str_words(t) ==
    LET is_start(i) == t[i] \notin ReSpace /\ (i = 1 \/ t[i - 1] \in ReSpace)
        is_stop(i) == t[i] \notin ReSpace /\ (i = Len(t) \/ t[i + 1] \in ReSpace)
    IN  CHOOSE words \in
          { [k \in 1..Len(starts) |-> SubSeq(t, starts[k], SelectSeq(indices(t), is_stop)[k])]
            : starts \in {SelectSeq(indices(t), is_start)} } : TRUE

(* s.isupper(): a cased character, and no lower-case one *)
str_isupper(s) ==
    /\ \E i \in 1..Len(s) : s[i] \in AsciiUpper
    /\ \A i \in 1..Len(s) : ~char_islower(s[i])

(* s.capitalize() *)
str_capitalize(s) ==
    [i \in 1..Len(s) |-> IF i = 1 THEN char_upper(s[i]) ELSE char_lower(s[i])]

sentence_endings == {".", "!", "?"}

(* the list sentences of fix_capitalisation: sentence_endings.split(text)
   gives text, ending, text, ..., text; each text is joined with its ending
   and stripped, and the last text is appended stripped *)
fc_sentences(t) ==
    LET is_ending(i) == t[i] \in sentence_endings
    IN  CHOOSE out \in
          { [j \in 1..(Len(ends) + 1) |->
               str_strip(SubSeq(t, IF j = 1 THEN 1 ELSE ends[j - 1] + 1,
                                   IF j <= Len(ends) THEN ends[j] ELSE Len(t)))]
            : ends \in {SelectSeq(indices(t), is_ending)} } : TRUE

(* clean_word: the word characters of the word *)
clean_word(word) ==
    LET is_word_char(c) == c \in ReWord
    IN  SelectSeq(word, is_word_char)

(* prefix: the run of non-word characters that starts the word *)
punct_prefix(word) ==
    SubSeq(word, 1, Min({ i \in 1..Len(word) : word[i] \in ReWord } \cup {Len(word) + 1}) - 1)

(* suffix: the run of non-word characters that ends the word *)
punct_suffix(word) ==
    LET after == { i \in 1..Len(word) : \A k \in i..Len(word) : word[k] \notin ReWord }
    IN  IF after = {} THEN <<>> ELSE SubSeq(word, Min(after), Len(word))

(* the loop body over the words of a sentence; exceptions is the empty set *)
corrected_word(word, i) ==
    IF str_isupper(clean_word(word))
    THEN punct_prefix(word)
         \o (IF i = 1 THEN str_capitalize(clean_word(word)) ELSE str_lower(clean_word(word)))
         \o punct_suffix(word)
    ELSE word

corrected_sentence(sentence) ==
    CHOOSE out \in
      { str_join([i \in 1..Len(words) |-> corrected_word(words[i], i)], <<" ">>)
        : words \in {str_words(sentence)} } : TRUE

fix_capitalisation(t) ==
    CHOOSE out \in
      { str_join([j \in 1..Len(ss) |-> corrected_sentence(ss[j])], <<" ">>)
        : ss \in {fc_sentences(t)} } : TRUE

(* the loop of split_cleaned_text_to_chunks from sentence i on, and the
   statement after it: the stripped chunks in order *)
RECURSIVE chunk_loop(_, _, _, _)
chunk_loop(sents, i, current_chunk, chunk_list) ==
    IF i > Len(sents)
    THEN IF Len(current_chunk) > 0 THEN Append(chunk_list, str_strip(current_chunk)) ELSE chunk_list
    ELSE IF Len(sents[i]) > max_length
    THEN chunk_loop(sents, i + 1, current_chunk, chunk_list)
    ELSE IF Len(current_chunk) + Len(sents[i]) + (IF Len(current_chunk) > 0 THEN 1 ELSE 0)
              <= max_length
    THEN chunk_loop(sents, i + 1,
                    current_chunk \o (IF Len(current_chunk) > 0 THEN <<" ">> ELSE <<>>) \o sents[i],
                    chunk_list)
    ELSE chunk_loop(sents, i + 1, sents[i], Append(chunk_list, str_strip(current_chunk)))

(* the rows split_cleaned_text_to_chunks returns for a document *)
split_cleaned_text_to_chunks(name, sents) ==
    CHOOSE rows \in
      { [n \in 1..Len(cs) |->
           [document_name |-> name, chunk_number |-> n, chunk_text |-> fix_capitalisation(cs[n])]]
        : cs \in {chunk_loop(sents, 1, <<>>, <<>>)} } : TRUE

d_split_cleaned_text_to_chunks(name, sents) ==
    CHOOSE rows \in
      { [n \in 1..Len(cs) |-> [document_name |-> name, chunk_number |-> n, chunk_text |-> cs[n]]]
        : cs \in {chunk_loop(sents, 1, <<>>, <<>>)} } : TRUE

(* the strings pd.read_csv reads as NaN by default *)
na_values ==
    { <<>>, <<"#", "N", "/", "A">>, <<"#", "N", "/", "A", " ", "N", "/", "A">>, <<"#", "N", "A">>,
      <<"-", "1", ".", "#", "I", "N", "D">>, <<"-", "1", ".", "#", "Q", "N", "A", "N">>,
      <<"-", "N", "a", "N">>, <<"-", "n", "a", "n">>, <<"1", ".", "#", "I", "N", "D">>,
      <<"1", ".", "#", "Q", "N", "A", "N">>, <<"<", "N", "A", ">">>, <<"N", "/", "A">>,
      <<"N", "A">>, <<"N", "U", "L", "L">>, <<"N", "a", "N">>, <<"N", "o", "n", "e">>,
      <<"n", "/", "a">>, <<"n", "a", "n">>, <<"n", "u", "l", "l">> }

(* a text cell read by pd.read_csv and written back by to_csv: NaN is written
   as the empty string *)
csv_round_trip(cell) == IF cell \in na_values THEN <<>> ELSE cell

(* existing_df as final_df.to_csv writes it again *)
rewritten(rows) ==
    [k \in 1..Len(rows) |-> [rows[k] EXCEPT !.chunk_text = csv_round_trip(@)]]

(* all_chunks for the files in the order the glob yields them *)
RECURSIVE all_chunks(_, _, _, _)
all_chunks(p, dir, order, existing_files) ==
    IF Len(order) = 0 THEN <<>>
    ELSE (IF order[1] \in existing_files THEN <<>>
          ELSE IF p = "process_txt_folder"
               THEN split_cleaned_text_to_chunks(order[1], dir[order[1]])
               ELSE d_split_cleaned_text_to_chunks(order[1], dir[order[1]]))
         \o all_chunks(p, dir, Tail(order), existing_files)

(* split_cleaned_text_to_chunks(txt_path) on its own *)
split_cleaned_text_to_chunks_call ==
    /\ prog = "split_cleaned_text_to_chunks" /\ pc = "call"
    /\ chunks' = split_cleaned_text_to_chunks(fname, doc_sentences)
    /\ pc' = "return"
    /\ UNCHANGED <<prog, folder, todo, grouped, row_i, csv, text, metrics, fname, gkey, cleaned, written, df, executor, call_counter, output_file, doc_sentences, selected, fs_case_sensitive>>

(* one run of process_txt_folder(folder_path, output_csv) *)
process_txt_folder(order) ==
    /\ prog \in {"process_txt_folder", "d_process_txt_folder"}
    /\ pc \in {"changed", "unchanged"}
    /\ \E existing_files \in {IF csv.exists
                               THEN { csv.rows[k].document_name : k \in 1..Len(csv.rows) }
                               ELSE {}} :
         \E new \in {all_chunks(prog, folder, order, existing_files)} :
           csv' = IF Len(new) > 0
                  THEN [exists |-> TRUE, rows |-> rewritten(csv.rows) \o new]
                  ELSE csv
    /\ chunks' = <<>>
    /\ pc' = "unchanged"
    /\ UNCHANGED <<prog, folder, todo, grouped, row_i, text, metrics, fname, gkey, cleaned, written, df, executor, call_counter, output_file, doc_sentences, selected, fs_case_sensitive>>

(* between two runs a document is put into the folder *)
add_document(f, sents) ==
    /\ prog \in {"process_txt_folder", "d_process_txt_folder"}
    /\ pc \in {"changed", "unchanged"}
    /\ f \notin DOMAIN folder
    /\ Cardinality(DOMAIN folder) < MaxFiles
    /\ folder' = [n \in DOMAIN folder \cup {f} |-> IF n = f THEN sents ELSE folder[n]]
    /\ pc' = "changed"
    /\ UNCHANGED <<prog, todo, grouped, row_i, csv, text, metrics, fname, gkey, cleaned, written, df, executor, call_counter, output_file, doc_sentences, chunks, selected, fs_case_sensitive>>

(* between two runs the text of a document of the folder is replaced *)
rewrite_document(f, sents) ==
    /\ prog \in {"process_txt_folder", "d_process_txt_folder"}
    /\ pc \in {"changed", "unchanged"}
    /\ f \in DOMAIN folder /\ folder[f] # sents
    /\ folder' = [folder EXCEPT ![f] = sents]
    /\ pc' = "changed"
    /\ UNCHANGED <<prog, todo, grouped, row_i, csv, text, metrics, fname, gkey, cleaned, written, df, executor, call_counter, output_file, doc_sentences, chunks, selected, fs_case_sensitive>>

----------------------------------------------------------------------------
(* a sentence of n characters: a word and a full stop *)
sentence_of(n) == [i \in 1..n |-> IF i = n THEN "." ELSE "a"]

MaxSentences == 3
SentenceSamples ==
    { sentence_of(max_length), sentence_of(max_length - 1), sentence_of(max_length + 1),
      sentence_of(max_length \div 2), <<"H", "i", "!">>,
      <<"T", "H", "E", " ", "(", "N", "H", "S", ")", " ", "i", "s", " ", "O", "K">>,
      <<"n", "u", "l", "l">> }
SentenceSeqs == SeqsUpTo(SentenceSamples, MaxSentences)

MaxDocs == 2
DocNameSeq == <<"a.txt", "b.txt", "c.txt", "d.txt", "e.txt">>
DocNames == { DocNameSeq[k] : k \in 1..Min({MaxDocs, Len(DocNameSeq)}) }
DocSamples ==
    { <<>>, <<<<"n", "u", "l", "l">>>>, <<<<"H", "i", "!">>>>,
      <<sentence_of(max_length \div 2), sentence_of(max_length \div 2 + 1), <<"N", "A">>>> }

(* the orders in which glob can yield the files of the folder *)
glob_orders(dir) ==
    { p \in [1..Cardinality(DOMAIN dir) -> DOMAIN dir] : Range(p) = DOMAIN dir }

InitChunk ==
    /\ prog \in {"split_cleaned_text_to_chunks", "process_txt_folder", "d_process_txt_folder"}
    /\ pc = IF prog = "split_cleaned_text_to_chunks" THEN "call" ELSE "changed"
    /\ doc_sentences \in IF prog = "split_cleaned_text_to_chunks" THEN SentenceSeqs ELSE {<<>>}
    /\ fname = IF prog = "split_cleaned_text_to_chunks" THEN DocNameSeq[1] ELSE <<>>
    /\ chunks = <<>>
    /\ folder = <<>>
    /\ csv = EmptyCsv
    /\ todo = {}
    /\ grouped = <<>>
    /\ row_i = 0
    /\ text = <<>>
    /\ cleaned = <<>>
    /\ metrics = <<>>
    /\ gkey = <<>>
    /\ written = <<>>
    /\ df = <<>> /\ executor = <<>> /\ call_counter = 0 /\ output_file = <<>>
    /\ selected = <<>>
    /\ fs_case_sensitive = TRUE

NextChunk ==
    \/ split_cleaned_text_to_chunks_call
    \/ \E order \in glob_orders(folder) : process_txt_folder(order)
    \/ \E f \in DocNames : \E sents \in DocSamples : add_document(f, sents)
    \/ \E f \in DocNames : \E sents \in DocSamples : rewrite_document(f, sents)

SpecChunk == InitChunk /\ [][NextChunk]_vars

----------------------------------------------------------------------------
(* C25: every chunk_text split_cleaned_text_to_chunks returns has at most
   max_length characters *)
C25_ChunkWithinMaxLength ==
    (prog = "split_cleaned_text_to_chunks" /\ pc = "return") =>
        \A n \in 1..Len(chunks) : Len(chunks[n].chunk_text) <= max_length

----------------------------------------------------------------------------
document_names(rows) == { rows[k].document_name : k \in 1..Len(rows) }

(* C26: over the runs of process_txt_folder on one output CSV a recorded
   document is never chunked again, the rows of earlier runs stay unchanged
   and in order, and a run on an unchanged folder adds no rows *)
C26_RecordedRowsKept ==
    [][(prog \in {"process_txt_folder", "d_process_txt_folder"} /\ pc' = "unchanged") =>
         /\ Len(csv'.rows) >= Len(csv.rows)
         /\ SubSeq(csv'.rows, 1, Len(csv.rows)) = csv.rows
         /\ \A k \in (Len(csv.rows) + 1)..Len(csv'.rows) :
              csv'.rows[k].document_name \notin document_names(csv.rows)
         /\ pc = "unchanged" => csv' = csv]_vars

(* the part of C26 that holds: no document is chunked twice, the rows of
   earlier runs keep their order, their document and their chunk number, and a
   run on an unchanged folder adds no rows *)
C26_NeverChunkedTwice ==
    [][(prog \in {"process_txt_folder", "d_process_txt_folder"} /\ pc' = "unchanged") =>
         /\ Len(csv'.rows) >= Len(csv.rows)
         /\ \A k \in 1..Len(csv.rows) :
              /\ csv'.rows[k].document_name = csv.rows[k].document_name
              /\ csv'.rows[k].chunk_number = csv.rows[k].chunk_number
         /\ \A k \in (Len(csv.rows) + 1)..Len(csv'.rows) :
              csv'.rows[k].document_name \notin document_names(csv.rows)
         /\ pc = "unchanged" => csv' = csv]_vars

----------------------------------------------------------------------------
(* text_file_recommendation.py, run on the directory compare_folder of
   text_comparison.py has summarised.  df is the summary as read; selected
   holds, per row, the directory entry that was copied, or None when the row
   was skipped. *)

(* f"_{recommended_method}_extraction" as one token of a file name *)
recommended_suffix(recommended_method) ==
    CASE recommended_method = "from_csv" -> "_from_csv_extraction"
      [] recommended_method = "PyMuPDF" -> "_PyMuPDF_extraction"
      [] recommended_method = "Tesseract" -> "_Tesseract_extraction"
      [] OTHER -> "_No data available_extraction"

csv_filename(base_name) == base_name \o <<"_from_csv", TxtTok>>

recommended_filename(base_name, recommended_method) ==
    base_name \o <<recommended_suffix(recommended_method), TxtTok>>

(* a token without its letter case *)
fold_tok(t) == CASE t = "_PyMuPDF_extraction" -> "_pymupdf_extraction"
                 [] t = "_Tesseract_extraction" -> "_tesseract_extraction"
                 [] OTHER -> LowerTok(t)

fold(name) == [i \in 1..Len(name) |-> fold_tok(name[i])]

(* the entries of the directory a path names: the entry of that name, or on a
   file system that ignores letter case the entry that differs in case only *)
entries_named(path, dir, case_sensitive) ==
    IF case_sensitive THEN { f \in DOMAIN dir : f = path }
    ELSE { f \in DOMAIN dir : fold(f) = fold(path) }

(* the body of the loop for one row: the entry copied, or None *)
selected_file(row, dir, case_sensitive) ==
    IF entries_named(csv_filename(row.group), dir, case_sensitive) # {}
    THEN Some(CHOOSE f \in entries_named(csv_filename(row.group), dir, case_sensitive) : TRUE)
    ELSE IF entries_named(recommended_filename(row.group, row.recommendation), dir,
                          case_sensitive) # {}
    THEN Some(CHOOSE f \in entries_named(recommended_filename(row.group, row.recommendation),
                                         dir, case_sensitive) : TRUE)
    ELSE None

(* a slip: a missing from_csv file skips the row *)
selected_file_from_csv_only(row, dir, case_sensitive) ==
    IF entries_named(csv_filename(row.group), dir, case_sensitive) # {}
    THEN Some(CHOOSE f \in entries_named(csv_filename(row.group), dir, case_sensitive) : TRUE)
    ELSE None

(* df = pd.read_csv(csv_path), after compare_folder has returned *)
read_summary ==
    /\ prog = "tc" /\ pc = "done"
    /\ prog' = "text_file_recommendation"
    /\ df' = csv.rows
    /\ row_i' = 0
    /\ selected' = <<>>
    /\ pc' = "iterrows"
    /\ UNCHANGED <<folder, todo, grouped, csv, text, metrics, fname, gkey, cleaned, written, executor, call_counter, output_file, doc_sentences, chunks, fs_case_sensitive>>

(* one iteration of  for idx, row in df.iterrows() *)
copy_selected_file ==
    /\ prog = "text_file_recommendation" /\ pc = "iterrows"
    /\ row_i < Len(df)
    /\ selected' = Append(selected, selected_file(df[row_i + 1], folder, fs_case_sensitive))
    /\ row_i' = row_i + 1
    /\ UNCHANGED <<prog, pc, folder, todo, grouped, csv, text, metrics, fname, gkey, cleaned, written, df, executor, call_counter, output_file, doc_sentences, chunks, fs_case_sensitive>>

(* print("File transfer complete.") *)
transfer_complete ==
    /\ prog = "text_file_recommendation" /\ pc = "iterrows"
    /\ row_i = Len(df)
    /\ pc' = "complete"
    /\ UNCHANGED <<prog, folder, todo, grouped, row_i, csv, text, metrics, fname, gkey, cleaned, written, df, executor, call_counter, output_file, doc_sentences, chunks, selected, fs_case_sensitive>>

(* a file system that ignores letter case holds no two names that differ in
   case only *)
case_distinct(dir) == \A f, g \in DOMAIN dir : fold(f) = fold(g) => f = g

InitRecommend ==
    /\ prog \in {"tc", "c1"}
    /\ pc = "glob"
    /\ folder \in Folders
    /\ fs_case_sensitive \in {TRUE} \cup (IF case_distinct(folder) THEN {FALSE} ELSE {})
    /\ todo = DOMAIN folder
    /\ grouped = <<>>
    /\ row_i = 0
    /\ csv = EmptyCsv
    /\ text = <<>>
    /\ metrics = <<>>
    /\ fname = <<>>
    /\ gkey = <<>>
    /\ cleaned = <<>>
    /\ written = <<>>
    /\ df = <<>> /\ executor = <<>> /\ call_counter = 0 /\ output_file = <<>>
    /\ doc_sentences = <<>> /\ chunks = <<>> /\ selected = <<>>

NextRecommend ==
    \/ Next
    \/ read_summary
    \/ copy_selected_file
    \/ transfer_complete

SpecRecommend == InitRecommend /\ [][NextRecommend]_vars

----------------------------------------------------------------------------
(* the file compare_folder holds for a method of a group, None without one *)
group_file(g, m) ==
    IF DictHas(DictGet(grouped, g), m) THEN Some(DictGet(DictGet(grouped, g), m)) ELSE None

(* the method a label of the recommendation column names *)
recommended_methods(label) ==
    { tc_method_order[i] : i \in { j \in 1..Len(tc_method_order) :
                                     method_labels(tc_method_order[j]) = label } }

(* C30: for every row of the summary exactly one file of the group is
   copied: the from_csv file of the group when there is one, otherwise the
   file of the recommended method; a group whose recommended file is in the
   directory is never skipped *)
C30_OneFilePerGroup ==
    (prog = "text_file_recommendation" /\ pc = "complete") =>
        /\ Len(selected) = Len(csv.rows)
        /\ \A k \in 1..Len(csv.rows) :
             IF group_file(csv.rows[k].group, "from_csv") # None
             THEN selected[k] = group_file(csv.rows[k].group, "from_csv")
             ELSE \A m \in recommended_methods(csv.rows[k].recommendation) :
                    /\ group_file(csv.rows[k].group, m) # None
                    /\ selected[k] = group_file(csv.rows[k].group, m)
============================================================================
